---- MODULE Spec2Model ----
(***************************************************************************)
(* SharePointList::get (src/src/lists/get.rs): the query resolution and    *)
(* federation engine.  One logical call is a chain of get() invocations:   *)
(* paging rounds and filter rounds are tail calls, a join suspends the     *)
(* parent call on the child list's call, a merge tail-calls the next       *)
(* target.  The remote service is the environment: every GetListItems      *)
(* request is answered by a failure or by decoded rows plus a token.       *)
(***************************************************************************)
EXTENDS Integers, Sequences, FiniteSets, TLC

VARIABLES
    pc,        \* "start" | "view" | "await" | "return" | "done"
    frame,     \* the running get() invocation: list_id, base_url, options
    locals,    \* that invocation's locals computed before the request
    stack,     \* parent invocations suspended on a join child call
    net,       \* every GetListItems exchange so far, oldest first
    sink,      \* every call made to the progress sink, oldest first
    outcome,   \* the value returned by the last finished invocation
    request,   \* the caller's request, as given to the first invocation
    lookups,   \* every view resolution so far, oldest first
    response_text,  \* a response document, as the events the XML reader yields
    decoded,   \* what the event loop made of response_text
    SP_CACHE_CONTENTTYPES,       \* getContentTypes.rs: Vec<CacheEntry>
    SP_CACHE_SAVEDLISTS,         \* lists.rs: Vec<CacheEntry>
    GLOBAL_SP_CACHE_CONTENTTYPE, \* getContentTypeInfo.rs: Vec<SPCacheContentType>
    callers,   \* each concurrent task's metadata lookup in progress
    site,      \* the revision of the metadata the site serves now
    served     \* every metadata lookup that returned, oldest first

vars ==
    <<pc, frame, locals, stack, net, sink, outcome, request, lookups, response_text, decoded,
      SP_CACHE_CONTENTTYPES, SP_CACHE_SAVEDLISTS, GLOBAL_SP_CACHE_CONTENTTYPE,
      callers, site, served>>

\* the process-wide metadata caches and the tasks that use them
metadata ==
    <<SP_CACHE_CONTENTTYPES, SP_CACHE_SAVEDLISTS, GLOBAL_SP_CACHE_CONTENTTYPE,
      callers, site, served>>

\* what an invocation's driver never touches
aside == <<request, response_text, decoded, metadata>>

\* the state of one get() call chain and of the decoder
query ==
    <<pc, frame, locals, stack, net, sink, outcome, request, lookups, response_text, decoded>>

----------------------------------------------------------------------------
(* Bounds of the exploration.                                              *)

MaxWheres == 3
MaxPage == 3
MaxTargets == 2
MaxRounds == 4

\* concurrent tasks looking metadata up, requests sent plus calls returned in
\* all, site revisions
Callers == {1, 2}
MaxLookups == 3
MaxRevision == 2

\* a task that is not inside a metadata lookup
Idle ==
    [pc |-> "idle", op |-> "", list_id |-> "", url |-> "", content_type |-> "",
     cache |-> FALSE, began |-> 0, resolving |-> ""]

\* Lazy::new(|| Mutex::new(Vec::new())): every cache starts empty
ColdStart ==
    /\ SP_CACHE_CONTENTTYPES = <<>>
    /\ SP_CACHE_SAVEDLISTS = <<>>
    /\ GLOBAL_SP_CACHE_CONTENTTYPE = <<>>
    /\ callers = [c \in Callers |-> Idle]
    /\ site = 1
    /\ served = <<>>

----------------------------------------------------------------------------
(* Option<T>, WhereClause, ListItem.                                       *)

None == <<>>
Some(x) == <<x>>
IsSome(o) == o # <<>>
Unwrap(o) == o[1]

Single(s) == [multi |-> FALSE, v |-> <<s>>]
Multiple(v) == [multi |-> TRUE, v |-> v]

\* A ListItem maps a field key to a value.  A key is the sequence of the
\* segments that the code separates by '.': <<"ID">> is "ID", <<"A","ID">>
\* is "A.ID".
Key(name) == <<name>>
Prefixed(alias, key) == <<alias>> \o key
ContainsDot(key) == Len(key) > 1

Field(name, value) == (Key(name) :> value)

RECURSIVE Flatten(_)
Flatten(seqs) == IF seqs = <<>> THEN <<>> ELSE Head(seqs) \o Flatten(Tail(seqs))

RECURSIVE JoinStr(_, _)
JoinStr(parts, sep) ==
    IF parts = <<>> THEN ""
    ELSE IF Len(parts) = 1 THEN parts[1]
    ELSE parts[1] \o sep \o JoinStr(Tail(parts), sep)

----------------------------------------------------------------------------
(* External collaborators (crate::utils), which src/ does not hold.        *)

\* translate a SQL-like filter into the native filter dialect
parse_where_to_caml(s) == "<Caml>" \o s \o "</Caml>"

\* the continuation tokens the service hands out, one per round number
TokenOf(n) == "Paged=TRUE&p_ID=" \o ToString(n)
\* clean_string escapes the markup characters of a token before it is put
\* into the next request document
clean_string(t) ==
    IF \E n \in 1..(MaxRounds + 2) : t = TokenOf(n)
    THEN "Paged=TRUE&amp;p_ID=" \o ToString(CHOOSE n \in 1..(MaxRounds + 2) : t = TokenOf(n))
    ELSE t

\* the ID portion of a compound lookup value "id;#title", or None
get_lookup_id(v) ==
    IF v = Some("1;#one") THEN Some("1")
    ELSE IF v = Some("2;#two") THEN Some("2")
    ELSE None

OnAB == "'A'.ID = 'B'.pid"
OnBad == "A.ID == B.pid"
OnEmpty == ""
OnOther == "'X'.ID = 'Y'.pid"
OnKey == "'P'.k = 'Q'.k"
OnTwoPairs == "'P'.x = 'Q'.x AND 'P'.y = 'Q'.y"
OnNested == "'Q'.r = 'R'.ID"
OnParentId == "'Q'.pid = 'P'.ID"
Pair(l1, f1, l2, f2) ==
    [list1_name |-> l1, list1_field |-> f1, list2_name |-> l2, list2_field |-> f2]
\* parse "'<alias>'.<field> = '<alias>'.<field>" into field pairs
parse_on_clause(s) ==
    IF s = OnAB THEN [ok |-> TRUE, pairs |-> <<Pair("A", "ID", "B", "pid")>>]
    ELSE IF s = "'B'.pid = 'A'.ID" THEN [ok |-> TRUE, pairs |-> <<Pair("B", "pid", "A", "ID")>>]
    ELSE IF s = OnOther THEN [ok |-> TRUE, pairs |-> <<Pair("X", "ID", "Y", "pid")>>]
    ELSE IF s = OnEmpty THEN [ok |-> TRUE, pairs |-> <<>>]
    ELSE IF s = OnKey THEN [ok |-> TRUE, pairs |-> <<Pair("P", "k", "Q", "k")>>]
    ELSE IF s = OnTwoPairs
         THEN [ok |-> TRUE, pairs |-> <<Pair("P", "x", "Q", "x"), Pair("P", "y", "Q", "y")>>]
    ELSE IF s = OnNested THEN [ok |-> TRUE, pairs |-> <<Pair("Q", "r", "R", "ID")>>]
    ELSE IF s = OnParentId THEN [ok |-> TRUE, pairs |-> <<Pair("Q", "pid", "P", "ID")>>]
    ELSE [ok |-> FALSE, pairs |-> <<>>]

\* Url::join of a relative path onto a base that ends in '/'
UrlJoin(base, rel) == base \o rel

\* A sort specification "Title DESC,ID" is the sequence of its comma
\* separated parts, <<"Title DESC", "ID">>; the empty string is <<>>.
\* The field and the direction of one part, after trim and split_whitespace:
order_part(part) ==
    IF part = "ID" THEN [field |-> "ID", direction |-> "ASC"]
    ELSE IF part = "Title DESC" THEN [field |-> "Title", direction |-> "DESC"]
    ELSE IF part = " Modified desc" THEN [field |-> "Modified", direction |-> "DESC"]
    ELSE [field |-> "", direction |-> "ASC"]

ViewDetails(fields, order_by, where_caml) ==
    [ok |-> TRUE, err |-> "", fields |-> fields, order_by |-> order_by, where_caml |-> where_caml]

\* crate::view::get_view_details: the views the site holds
get_view_details(list_id, view_name_or_id) ==
    IF view_name_or_id = "Tasks"
    THEN ViewDetails(<<"Title", "Author">>, Some(<<" Modified desc">>), Some("<Eq>Open</Eq>"))
    ELSE IF view_name_or_id = "Plain"
    THEN ViewDetails(<<"Title">>, Some(<<>>), None)
    ELSE IF view_name_or_id = "Bare"
    THEN ViewDetails(<<>>, None, None)
    ELSE [ok |-> FALSE, err |-> "ViewNotFound", fields |-> <<>>, order_by |-> None, where_caml |-> None]

\* crate::utils::to_sp_date_string of the day-th day of 2024
to_sp_date_string(day) == "2024-01-0" \o ToString(day) \o "T00:00:00Z"

----------------------------------------------------------------------------
(* GetListItemsOptions, JoinOptions, MergeTarget.                          *)

DefaultOptions ==
    [ fields |-> <<>>,
      view |-> None,
      where_clause |-> Single(""),
      where_caml |-> FALSE,
      orderby |-> None,
      rowlimit |-> 0,
      calendar |-> FALSE,
      calendar_options |-> None,
      calendar_via_view |-> FALSE,
      progress |-> FALSE,
      paging |-> FALSE,
      page |-> 5000,
      next_page_token |-> None,
      show_list_in_attribute |-> FALSE,
      alias |-> None,
      merge |-> None,
      join |-> None,
      outerjoin |-> None,
      results |-> <<>>,
      original_where |-> None,
      next_where |-> <<>>,
      join_data |-> None,
      merge_data |-> <<>>,
      is_join_child |-> FALSE ]

JoinOptions(list, on, outer, options) ==
    [ list |-> list, url |-> None, on |-> on, on_lookup |-> None, outer |-> outer,
      join |-> None, outerjoin |-> None, options |-> options ]

MergeTarget(list, url, options) == [list |-> list, url |-> url, options |-> options]

SharePointList(list_id, base_url) == [list_id |-> list_id, base_url |-> base_url]

----------------------------------------------------------------------------
(* get(): everything before the request is sent.                           *)

list_alias(self, options) ==
    IF IsSome(options.alias) THEN Unwrap(options.alias) ELSE self.list_id

is_paging_or_multiwhere(options) == options.paging \/ options.where_clause.multi

Range(seq) == {seq[i] : i \in 1..Len(seq)}

RECURSIVE MapCaml(_)
MapCaml(v) == IF v = <<>> THEN <<>> ELSE <<parse_where_to_caml(Head(v))>> \o MapCaml(Tail(v))

\* the user's filter expressions in the native dialect
parsed_user_where(current_where, is_where_caml) ==
    IF ~current_where.multi /\ current_where.v[1] # ""
    THEN IF is_where_caml THEN current_where.v ELSE MapCaml(current_where.v)
    ELSE IF current_where.multi
         THEN IF is_where_caml THEN current_where.v ELSE MapCaml(current_where.v)
         ELSE <<>>

\* a slip: only the first expression of a sequence gets the view's filter
combined_wheres_FirstOnly(user_wheres, view_where_caml) ==
    IF user_wheres = <<>> THEN <<view_where_caml>>
    ELSE [i \in 1..Len(user_wheres) |->
            IF i = 1 THEN "<And>" \o user_wheres[i] \o view_where_caml \o "</And>"
            ELSE user_wheres[i]]

combined_wheres(user_wheres, view_where_caml) ==
    IF user_wheres = <<>> THEN <<view_where_caml>>
    ELSE [i \in 1..Len(user_wheres) |-> "<And>" \o user_wheres[i] \o view_where_caml \o "</And>"]

\* "Merge view OrderBy (append if user also provided)"
merged_orderby(current_orderby, view_order_by) ==
    IF IsSome(view_order_by)
    THEN IF current_orderby # <<>> /\ Unwrap(view_order_by) # <<>>
         THEN current_orderby \o Unwrap(view_order_by)
         ELSE IF Unwrap(view_order_by) # <<>> THEN Unwrap(view_order_by) ELSE current_orderby
    ELSE current_orderby

\* the locals of get() before the view is looked at
NoView(options) ==
    [ ok |-> TRUE, err |-> "", resolved |-> <<>>, options |-> options,
      current_fields |-> Range(options.fields),
      current_orderby |-> IF IsSome(options.orderby) THEN Unwrap(options.orderby) ELSE <<>>,
      current_where |-> options.where_clause,
      is_where_caml |-> options.where_caml ]

\* "Handle View": the view's fields, sort and filter merged into the locals
HandleView(self, options) ==
    LET plain == NoView(options)
    IN IF ~IsSome(options.view) THEN plain
       ELSE IF Unwrap(options.view) = "" THEN [plain EXCEPT !.options.view = None]
       ELSE LET view_details == get_view_details(self.list_id, Unwrap(options.view))
                resolved == <<[list_id |-> self.list_id, view |-> Unwrap(options.view)]>>
                wheres == combined_wheres(
                              parsed_user_where(plain.current_where, plain.is_where_caml),
                              Unwrap(view_details.where_caml))
            IN IF ~view_details.ok
               THEN [plain EXCEPT !.ok = FALSE, !.err = view_details.err, !.resolved = resolved]
               ELSE [ ok |-> TRUE, err |-> "", resolved |-> resolved,
                      options |-> [options EXCEPT !.calendar_via_view = options.calendar,
                                                  !.calendar = FALSE,
                                                  !.view = None],
                      current_fields |-> plain.current_fields \cup Range(view_details.fields),
                      current_orderby |->
                          merged_orderby(plain.current_orderby, view_details.order_by),
                      current_where |->
                          IF IsSome(view_details.where_caml)
                          THEN IF Len(wheres) = 1 THEN Single(wheres[1]) ELSE Multiple(wheres)
                          ELSE plain.current_where,
                      is_where_caml |-> IsSome(view_details.where_caml) \/ plain.is_where_caml ]

\* "Handle Multi-Where": on the first call of a filter sequence take the first
\* expression and stash the rest in options.next_where
MultiWhereSetup(options, current_where) ==
    IF current_where.multi /\ options.next_where = <<>> /\ options.results = <<>>
    THEN IF current_where.v = <<>>
         THEN [ current_where |-> Single(""),
                options |-> [options EXCEPT !.next_where = <<>>] ]
         ELSE [ current_where |-> Single(Head(current_where.v)),
                options |-> [options EXCEPT !.original_where = Some(current_where),
                                            !.next_where = Tail(current_where.v)] ]
    ELSE [current_where |-> current_where, options |-> options]

\* the orders in which a HashSet of these strings may be iterated
iteration_orders(set) ==
    {order \in [1..Cardinality(set) -> set] :
        \A i, j \in 1..Cardinality(set) : i # j => order[i] # order[j]}

RECURSIVE fields_xml(_)
fields_xml(order) ==
    IF order = <<>> THEN ""
    ELSE "<FieldRef Name=\"" \o Head(order) \o "\" />" \o fields_xml(Tail(order))

is_calendar(options) == options.calendar \/ options.calendar_via_view

RECURSIVE orderby_clauses(_)
orderby_clauses(parts) ==
    IF parts = <<>> THEN ""
    ELSE LET p == order_part(Head(parts))
         IN (IF p.field = "" THEN ""
             ELSE "<FieldRef Name=\"" \o p.field \o "\" Ascending=\""
                  \o (IF p.direction = "ASC" THEN "true" ELSE "false") \o "\" />")
            \o orderby_clauses(Tail(parts))

orderby_xml(current_orderby, options) ==
    IF current_orderby # <<>>
    THEN "<OrderBy>" \o orderby_clauses(current_orderby) \o "</OrderBy>"
    ELSE IF is_calendar(options)
         THEN "<OrderBy><FieldRef Name=\"EventDate\" Ascending=\"TRUE\" /></OrderBy>"
         ELSE ""

where_inner_xml(current_where, is_where_caml) ==
    IF ~current_where.multi /\ current_where.v[1] # ""
    THEN IF is_where_caml THEN current_where.v[1]
         ELSE parse_where_to_caml(current_where.v[1])
    ELSE ""

\* CalendarOptions::default(): the reference date is the time of the call
default_calendar(now) == [split_recurrence |-> TRUE, reference_date |-> now, range |-> "Month"]

\* options.calendar_options.get_or_insert_with(Default::default)
cal_opts(options, now) ==
    IF IsSome(options.calendar_options) THEN Unwrap(options.calendar_options)
    ELSE default_calendar(now)

date_range_overlap(range_tag) ==
    "<DateRangesOverlap><FieldRef Name='EventDate' /><FieldRef Name='EndDate' />"
    \o "<FieldRef Name='RecurrenceID' /><Value Type='DateTime'><" \o range_tag
    \o " /></Value></DateRangesOverlap>"

\* "Add Calendar DateRangesOverlap if needed"
final_where_inner(where_inner, options, now) ==
    IF is_calendar(options)
    THEN IF where_inner # ""
         THEN "<And>" \o where_inner \o date_range_overlap(cal_opts(options, now).range) \o "</And>"
         ELSE date_range_overlap(cal_opts(options, now).range)
    ELSE where_inner

\* a slip: the filter block is written even when there is no filter
where_xml_AlwaysWritten(final_where_inner_xml) ==
    "<Where>" \o final_where_inner_xml \o "</Where>"

where_xml(final_where_inner_xml) ==
    IF final_where_inner_xml # "" THEN "<Where>" \o final_where_inner_xml \o "</Where>" ELSE ""

PagingAttr(options) ==
    IF IsSome(options.next_page_token) THEN Unwrap(options.next_page_token) ELSE ""

\* "Handle Calendar Options" of the query options
calendar_xml(options, now) ==
    IF is_calendar(options)
    THEN "<CalendarDate>" \o to_sp_date_string(cal_opts(options, now).reference_date)
         \o "</CalendarDate><RecurrencePatternXMLVersion>v3</RecurrencePatternXMLVersion>"
         \o "<ExpandRecurrence>"
         \o (IF cal_opts(options, now).split_recurrence THEN "TRUE" ELSE "FALSE")
         \o "</ExpandRecurrence>"
    ELSE ""

\* the request document, as far as the service can tell two documents apart
body_content(self, options, current_where, is_where_caml, current_orderby, order, now) ==
    [ listName |-> self.list_id,
      url |-> self.base_url,
      where_xml |-> where_xml(final_where_inner(where_inner_xml(current_where, is_where_caml),
                                                options, now)),
      orderby_xml |-> orderby_xml(current_orderby, options),
      fields_xml |-> fields_xml(order),
      rowLimit |-> IF options.paging /\ options.rowlimit < 1 THEN 1 ELSE options.rowlimit,
      calendar |-> calendar_xml(options, now),
      paging |-> PagingAttr(options) ]

\* the options after the query components were prepared
prepared(options, now) ==
    IF is_calendar(options)
    THEN [options EXCEPT !.calendar_options = Some(cal_opts(options, now))]
    ELSE options

\* everything up to the request document, for one iteration order of the
\* field set and one reading of the clock
Prologue(self, options, order, now) ==
    LET hv == HandleView(self, options)
        mw == MultiWhereSetup(hv.options, hv.current_where)
    IN [ ok |-> hv.ok,
         err |-> hv.err,
         resolved |-> hv.resolved,
         options |-> prepared(mw.options, now),
         list_alias |-> list_alias(self, options),
         is_paging_or_multiwhere |-> is_paging_or_multiwhere(options),
         current_where |-> mw.current_where,
         is_where_caml |-> hv.is_where_caml,
         doc |-> body_content(self, mw.options, mw.current_where, hv.is_where_caml,
                              hv.current_orderby, order, now) ]

\* the clock readings that can make a difference to the call
Clock == {1, 2}
clock_readings(options) ==
    IF is_calendar(options) /\ ~IsSome(options.calendar_options) THEN Clock ELSE {1}

----------------------------------------------------------------------------
(* get(): the response decoder ("Parse XML Response").                     *)

\* An event of the XML reader: type "Start" (<x ..>), "Empty" (<x ../>),
\* "End" (</x>), "Text", or "Error" (the reader fails at this point).  An
\* attribute key is the sequence of the pieces it is the concatenation of:
\* <<"ows_", "Title">> is ows_Title.
Event(type, name, attributes) == [type |-> type, name |-> name, attributes |-> attributes]
Attr(key, value) == [key |-> key, value |-> value]
Eof == Event("Eof", "", <<>>)

\* str::strip_prefix
strip_prefix(key, prefix) ==
    IF key # <<>> /\ Head(key) = prefix THEN Some(Tail(key)) ELSE None

\* Attribute::decode_and_unescape_value: entity references are resolved
decode_and_unescape_value(v) ==
    IF v = "a&amp;b" THEN "a&b"
    ELSE IF \E n \in 1..(MaxRounds + 2) : v = "Paged=TRUE&amp;p_ID=" \o ToString(n)
         THEN TokenOf(CHOOSE n \in 1..(MaxRounds + 2) : v = "Paged=TRUE&amp;p_ID=" \o ToString(n))
         ELSE v

is_row(name) == name \in {"z:row", "row"}
is_data(name) == name \in {"rs:data", "data"}

final_key(options, alias, stripped_key) ==
    IF options.show_list_in_attribute /\ ~options.is_join_child
    THEN Prefixed(alias, Key(JoinStr(stripped_key, "")))
    ELSE Key(JoinStr(stripped_key, ""))

\* HashMap::insert
Insert(item, k, v) == [x \in DOMAIN item \cup {k} |-> IF x = k THEN v ELSE item[x]]

\* the ListItem of a row element: one entry per ows_ attribute
RECURSIVE row_item(_, _, _, _)
row_item(attributes, options, alias, item) ==
    IF attributes = <<>> THEN item
    ELSE LET attr == Head(attributes)
             stripped == strip_prefix(attr.key, "ows_")
         IN row_item(Tail(attributes), options, alias,
                IF IsSome(stripped)
                THEN Insert(item, final_key(options, alias, Unwrap(stripped)),
                            decode_and_unescape_value(attr.value))
                ELSE item)

\* a slip: an empty attribute value is surfaced as a token too
RECURSIVE data_token_EmptyToo(_, _)
data_token_EmptyToo(attributes, token) ==
    IF attributes = <<>> THEN token
    ELSE LET attr == Head(attributes)
             value == decode_and_unescape_value(attr.value)
         IN data_token_EmptyToo(Tail(attributes),
                IF attr.key = <<"ListItemCollectionPositionNext">>
                THEN Some(value) ELSE token)

\* the paging token of a data element: the last non-empty
\* ListItemCollectionPositionNext attribute, or the token held so far
RECURSIVE data_token(_, _)
data_token(attributes, token) ==
    IF attributes = <<>> THEN token
    ELSE LET attr == Head(attributes)
             value == decode_and_unescape_value(attr.value)
         IN data_token(Tail(attributes),
                IF attr.key = <<"ListItemCollectionPositionNext">> /\ value # ""
                THEN Some(value) ELSE token)

\* Reader::read_event_mut: the next event, Eof once the document is read
read_event(events) == IF events = <<>> THEN Eof ELSE Head(events)
advance(events) == IF events = <<>> THEN <<>> ELSE Tail(events)

DecodeError ==
    [ok |-> FALSE, parsed_items |-> <<>>, response_next_page_token |-> None, err |-> "DecodeError"]

\* if let Some(item) = current_item.take() { parsed_items.push(item) }
commit(parsed_items, current_item) ==
    IF IsSome(current_item) THEN Append(parsed_items, Unwrap(current_item)) ELSE parsed_items

\* the event loop, from the events not yet read and the loop's variables
RECURSIVE event_loop(_, _, _, _, _, _)
event_loop(events, options, alias, current_item, parsed_items, token) ==
    LET e == read_event(events)
        rest == advance(events)
    IN IF e.type = "Error" THEN DecodeError
       ELSE IF e.type = "Eof"
       THEN [ ok |-> TRUE, parsed_items |-> parsed_items, response_next_page_token |-> token,
              err |-> "" ]
       ELSE IF e.type \in {"Start", "Empty"} /\ is_row(e.name)
       THEN \* the item is built, one more event is read and dropped, and the
            \* item is committed whatever that event was
            IF read_event(rest).type = "Error" THEN DecodeError
            ELSE event_loop(advance(rest), options, alias, None,
                            commit(parsed_items,
                                   Some(row_item(e.attributes, options, alias, [k \in {} |-> ""]))),
                            token)
       ELSE IF e.type \in {"Start", "Empty"} /\ is_data(e.name)
       THEN event_loop(rest, options, alias, current_item, parsed_items,
                       data_token(e.attributes, token))
       ELSE IF e.type = "End" /\ is_row(e.name)
       THEN event_loop(rest, options, alias, None, commit(parsed_items, current_item), token)
       ELSE event_loop(rest, options, alias, current_item, parsed_items, token)

parse_response(events, self, options) ==
    event_loop(events, options, list_alias(self, options), None, <<>>, None)

NotDecoded ==
    [ok |-> FALSE, parsed_items |-> <<>>, response_next_page_token |-> None, err |-> "pending"]

----------------------------------------------------------------------------
(* get(): the continuation driver, after the rows of a round are decoded.  *)

Progress(loaded, total) == [loaded |-> loaded, total |-> total]

\* a slip: the budget test is off by one
PagingContinues_OffByOne(options, response_next_page_token) ==
    options.paging /\ options.page > 2 /\ IsSome(response_next_page_token)

\* a slip: a budget of exactly 1 still pages
PagingContinues_BudgetOfOne(options, response_next_page_token) ==
    options.paging /\ options.page >= 1 /\ IsSome(response_next_page_token)

\* a slip: any token is followed, whether paging was asked for or not
PagingContinues_AnyToken(options, response_next_page_token) ==
    options.page > 1 /\ IsSome(response_next_page_token)

PagingContinues(options, response_next_page_token) ==
    options.paging /\ options.page > 1 /\ IsSome(response_next_page_token)

PagingNextOptions(options, combined_results, next_token) ==
    [options EXCEPT !.next_page_token = Some(clean_string(next_token)),
                    !.page = options.page - 1,
                    !.results = combined_results]

total_wheres(options) ==
    IF IsSome(options.original_where) /\ Unwrap(options.original_where).multi
    THEN Len(Unwrap(options.original_where).v)
    ELSE 1

\* usize::saturating_sub
saturating_sub(a, b) == IF a >= b THEN a - b ELSE 0

MultiWhereProgress(options) ==
    Progress(saturating_sub(total_wheres(options), Len(options.next_where)),
             Some(total_wheres(options)))

\* a slip: the pending filter expressions are taken from the back
MultiWhereNextOptions_FromBack(options, combined_results) ==
    [options EXCEPT !.next_where = SubSeq(options.next_where, 1, Len(options.next_where) - 1),
                    !.where_clause = Single(options.next_where[Len(options.next_where)]),
                    !.next_page_token = None,
                    !.results = combined_results]

\* a slip: every filter segment gets one more page of budget
MultiWhereNextOptions_MoreBudget(options, combined_results) ==
    [options EXCEPT !.next_where = Tail(options.next_where),
                    !.where_clause = Single(Head(options.next_where)),
                    !.next_page_token = None,
                    !.page = options.page + 1,
                    !.results = combined_results,
                    !.where_caml = IsSome(options.original_where)
                                   /\ Unwrap(options.original_where).multi
                                   /\ options.where_caml]

\* a slip: the page token of the segment just ended is kept
MultiWhereNextOptions_KeepToken(options, combined_results) ==
    [options EXCEPT !.next_where = Tail(options.next_where),
                    !.where_clause = Single(Head(options.next_where)),
                    !.results = combined_results,
                    !.where_caml = IsSome(options.original_where)
                                   /\ Unwrap(options.original_where).multi
                                   /\ options.where_caml]

MultiWhereNextOptions(options, combined_results) ==
    [options EXCEPT !.next_where = Tail(options.next_where),
                    !.where_clause = Single(Head(options.next_where)),
                    !.next_page_token = None,
                    !.results = combined_results,
                    !.where_caml = IsSome(options.original_where)
                                   /\ Unwrap(options.original_where).multi
                                   /\ options.where_caml]

\* "Final Result": the last progress call of a multi-step retrieval
FinalProgress(options, is_pm, final_items) ==
    IF is_pm /\ options.progress
    THEN IF options.paging THEN <<Progress(Len(final_items), None)>>
         ELSE IF IsSome(options.original_where) /\ Unwrap(options.original_where).multi
              THEN <<Progress(Len(Unwrap(options.original_where).v),
                              Some(Len(Unwrap(options.original_where).v)))>>
              ELSE <<>>
    ELSE <<>>

GetListItemsResult(items, next_page_token) ==
    [ok |-> TRUE, items |-> items, next_page_token |-> next_page_token, err |-> ""]

Err(e) == [ok |-> FALSE, items |-> <<>>, next_page_token |-> None, err |-> e]

----------------------------------------------------------------------------
(* get(): the join resolver, parent side.                                  *)

Get(item, key) == IF key \in DOMAIN item THEN Some(item[key]) ELSE None

\* Option::or_else
OrElse(a, b) == IF IsSome(a) THEN a ELSE b

\* a slip: the compound lookup value is used as it is
id_part_Raw(value) == IF IsSome(value) THEN Unwrap(value) ELSE ""

\* get_lookup_id(value).unwrap_or_else(|| value.cloned().unwrap_or_default())
id_part(value) ==
    IF IsSome(get_lookup_id(value)) THEN Unwrap(get_lookup_id(value))
    ELSE IF IsSome(value) THEN Unwrap(value) ELSE ""

\* the field of pair p that belongs to the list called alias, if any
refers_to(p, alias) ==
    IF p.list1_name = alias THEN Some(p.list1_field)
    ELSE IF p.list2_name = alias THEN Some(p.list2_field)
    ELSE None

\* the ON-clause given, or the one synthesized from on_lookup, or an error
on_clause(join_opts, alias) ==
    IF IsSome(join_opts.on) THEN join_opts.on
    ELSE IF IsSome(join_opts.on_lookup)
         THEN Some("'" \o (IF IsSome(join_opts.options.alias)
                           THEN Unwrap(join_opts.options.alias) ELSE join_opts.list)
                   \o "'." \o Unwrap(join_opts.on_lookup) \o " = '" \o alias \o "'.ID")
         ELSE None

ParentValue(item, alias, parent_field_name) ==
    OrElse(Get(item, Prefixed(alias, Key(parent_field_name))),
           Get(item, Key(parent_field_name)))

RECURSIVE ParentKeyParts(_, _, _)
ParentKeyParts(item, on_pairs, alias) ==
    IF on_pairs = <<>> THEN [valid |-> TRUE, parts |-> <<>>]
    ELSE LET f == refers_to(Head(on_pairs), alias)
         IN IF IsSome(f)
            THEN LET rest == ParentKeyParts(item, Tail(on_pairs), alias)
                 IN [ valid |-> rest.valid,
                      parts |-> <<id_part(ParentValue(item, alias, Unwrap(f)))>> \o rest.parts ]
            ELSE [valid |-> FALSE, parts |-> <<>>]

index_key(index_key_parts) == "_" \o JoinStr(index_key_parts, "_")

PrefixKey(alias, k) == IF ~ContainsDot(k) THEN Prefixed(alias, k) ELSE k

prefixed_item(item, alias) ==
    [ k2 \in {PrefixKey(alias, k) : k \in DOMAIN item} |->
        item[CHOOSE k \in DOMAIN item : PrefixKey(alias, k) = k2] ]

\* indexed_parent_data and parent_index_keys, one parent row after the other
RECURSIVE IndexParent(_, _, _, _)
IndexParent(items, on_pairs, alias, acc) ==
    IF items = <<>> THEN acc
    ELSE LET kp == ParentKeyParts(Head(items), on_pairs, alias)
             key == index_key(kp.parts)
             old == IF key \in DOMAIN acc.indexed_data THEN acc.indexed_data[key] ELSE <<>>
         IN IndexParent(Tail(items), on_pairs, alias,
              IF kp.valid
              THEN [ indexed_data |->
                       [ k \in DOMAIN acc.indexed_data \cup {key} |->
                           IF k = key THEN Append(old, prefixed_item(Head(items), alias))
                           ELSE acc.indexed_data[k] ],
                     index_keys |->
                       IF key \in DOMAIN acc.indexed_data THEN acc.index_keys
                       ELSE Append(acc.index_keys, key) ]
              ELSE acc)

EmptyIndex == [indexed_data |-> [k \in {} |-> <<>>], index_keys |-> <<>>]

JoinData(final_items, on_pairs, alias, is_outer) ==
    LET ix == IndexParent(final_items, on_pairs, alias, EmptyIndex)
    IN [ indexed_data |-> ix.indexed_data,
         index_keys |-> ix.index_keys,
         on_pairs |-> on_pairs,
         parent_alias |-> alias,
         outer |-> is_outer ]

\* the effective join of the options: (JoinOptions, is_outer), or None
effective_join_options(options) ==
    IF IsSome(options.join) THEN Some([opts |-> Unwrap(options.join), outer |-> FALSE])
    ELSE IF IsSome(options.outerjoin)
         THEN Some([opts |-> Unwrap(options.outerjoin), outer |-> TRUE])
         ELSE None

\* the field of pair p that belongs to the child list, if any
child_refers_to(p, join_opts) ==
    refers_to(p, IF IsSome(join_opts.options.alias)
                 THEN Unwrap(join_opts.options.alias) ELSE join_opts.list)

\* item.get("ID").flatten(), written as the IN filter writes it
id_val(item) ==
    IF IsSome(Get(item, Key("ID"))) THEN {"~" \o Unwrap(Get(item, Key("ID")))} ELSE {}

\* what one parent row adds to join_lookup_values_for_where
RECURSIVE ItemLookupValues(_, _, _, _)
ItemLookupValues(item, on_pairs, alias, join_opts) ==
    IF on_pairs = <<>> THEN {}
    ELSE LET pair == Head(on_pairs)
             f == refers_to(pair, alias)
             c == child_refers_to(pair, join_opts)
         IN IF ~IsSome(f) THEN {}
            ELSE (IF IsSome(join_opts.on_lookup) /\ Unwrap(f) = "ID" THEN id_val(item)
                  ELSE IF IsSome(c)
                       THEN IF join_opts.on_lookup = c /\ Unwrap(f) = "ID" THEN id_val(item)
                            ELSE IF Unwrap(c) = (IF IsSome(join_opts.on_lookup)
                                                 THEN Unwrap(join_opts.on_lookup) ELSE "")
                                    /\ Unwrap(f) = "ID"
                                 THEN id_val(item)
                                 ELSE {}
                       ELSE {})
                 \cup ItemLookupValues(item, Tail(on_pairs), alias, join_opts)

join_lookup_values_for_where(final_items, on_pairs, alias, join_opts) ==
    UNION {ItemLookupValues(final_items[i], on_pairs, alias, join_opts) :
              i \in 1..Len(final_items)}

max_in_clause == 500
\* "Heuristic limit for OR complexity"
max_where_parts == 10

\* Itertools::chunks
RECURSIVE chunks(_, _)
chunks(values, size) ==
    IF values = <<>> THEN <<>>
    ELSE IF Len(values) <= size THEN <<values>>
    ELSE <<SubSeq(values, 1, size)>> \o chunks(SubSeq(values, size + 1, Len(values)), size)

\* "<lookup_field> IN ["v1","v2"]" of one chunk
in_clause(lookup_field, chunk) ==
    lookup_field \o " IN ["
        \o JoinStr([i \in 1..Len(chunk) |-> "\"" \o chunk[i] \o "\""], ",") \o "]"

where_parts(lookup_field, lookup_order) ==
    LET cs == chunks(lookup_order, max_in_clause)
    IN [i \in 1..Len(cs) |-> in_clause(lookup_field, cs[i])]

\* a slip: every expression of the child's filter sequence is ANDed with the
\* IN filter and the sequence is kept
lookup_where_PerExpression(where_clause, combined_lookup_where) ==
    IF ~where_clause.multi /\ where_clause.v[1] # ""
    THEN Single("(" \o combined_lookup_where \o ") AND (" \o where_clause.v[1] \o ")")
    ELSE IF where_clause.multi
         THEN Multiple([i \in 1..Len(where_clause.v) |->
                  "(" \o combined_lookup_where \o ") AND (" \o where_clause.v[i] \o ")"])
         ELSE Single(combined_lookup_where)

\* "Combine with existing child WHERE"
lookup_where(where_clause, combined_lookup_where) ==
    IF ~where_clause.multi /\ where_clause.v[1] # ""
    THEN Single("(" \o combined_lookup_where \o ") AND (" \o where_clause.v[1] \o ")")
    ELSE IF where_clause.multi
         THEN Single("(" \o combined_lookup_where \o ") AND (("
                     \o JoinStr(where_clause.v, ") OR (") \o "))")
         ELSE Single(combined_lookup_where)

\* "onLookup optimization": the child's filter, dialect, paging and fields
lookup_options(child, join_opts, lookup_order) ==
    IF IsSome(join_opts.on_lookup) /\ lookup_order # <<>>
    THEN LET lookup_field == Unwrap(join_opts.on_lookup)
             parts == where_parts(lookup_field, lookup_order)
             filtered ==
                 IF Len(parts) < max_where_parts
                 THEN [child EXCEPT
                          !.where_clause =
                              lookup_where(child.where_clause,
                                           "(" \o JoinStr(parts, " OR ") \o ")"),
                          !.where_caml = FALSE]
                 ELSE [child EXCEPT !.paging = TRUE]
         IN [filtered EXCEPT
                !.fields = IF lookup_field \in Range(child.fields) THEN child.fields
                           ELSE Append(child.fields, lookup_field)]
    ELSE child

child_options(join_opts, join_data, lookup_order) ==
    [lookup_options([join_opts.options EXCEPT
                        !.alias = OrElse(join_opts.options.alias, Some(join_opts.list))],
                    join_opts, lookup_order)
     EXCEPT
        !.join_data = Some(join_data),
        !.is_join_child = TRUE,
        !.join = join_opts.join,
        !.outerjoin = join_opts.outerjoin]

ResolveUrl(base_url, url) == IF IsSome(url) THEN UrlJoin(base_url, Unwrap(url)) ELSE base_url

----------------------------------------------------------------------------
(* get(): the join resolver, child side.                                   *)

RECURSIVE ChildKeyParts(_, _, _)
ChildKeyParts(child_item, on_pairs, child_alias) ==
    IF on_pairs = <<>> THEN [valid |-> TRUE, parts |-> <<>>]
    ELSE LET f == refers_to(Head(on_pairs), child_alias)
         IN IF IsSome(f)
            THEN LET rest == ChildKeyParts(child_item, Tail(on_pairs), child_alias)
                 IN [ valid |-> rest.valid,
                      parts |-> <<id_part(Get(child_item, Key(Unwrap(f))))>> \o rest.parts ]
            ELSE [valid |-> FALSE, parts |-> <<>>]

merged_item(parent_item, child_item, child_alias) ==
    [ k \in DOMAIN parent_item \cup {Prefixed(child_alias, c) : c \in DOMAIN child_item} |->
        IF \E c \in DOMAIN child_item : Prefixed(child_alias, c) = k
        THEN child_item[CHOOSE c \in DOMAIN child_item : Prefixed(child_alias, c) = k]
        ELSE parent_item[k] ]

RECURSIVE MergeWithParents(_, _, _)
MergeWithParents(parent_items, child_item, child_alias) ==
    IF parent_items = <<>> THEN <<>>
    ELSE <<merged_item(Head(parent_items), child_item, child_alias)>>
         \o MergeWithParents(Tail(parent_items), child_item, child_alias)

\* the records of one child row, and the index key it matched (if any)
ChildMatch(child_item, join_ctx, child_alias) ==
    LET kp == ChildKeyParts(child_item, join_ctx.on_pairs, child_alias)
        key == index_key(kp.parts)
    IN IF kp.valid /\ key \in DOMAIN join_ctx.indexed_data
       THEN [ rows |-> MergeWithParents(join_ctx.indexed_data[key], child_item, child_alias),
              found |-> {key} ]
       ELSE [rows |-> <<>>, found |-> {}]

RECURSIVE JoinChildren(_, _, _)
JoinChildren(final_items, join_ctx, child_alias) ==
    IF final_items = <<>> THEN [rows |-> <<>>, found |-> {}]
    ELSE LET m == ChildMatch(Head(final_items), join_ctx, child_alias)
             rest == JoinChildren(Tail(final_items), join_ctx, child_alias)
         IN [rows |-> m.rows \o rest.rows, found |-> m.found \cup rest.found]

\* "Outer Join Handling": the parent rows of every index key never matched
RECURSIVE UnmatchedParents(_, _, _)
UnmatchedParents(index_keys, join_ctx, found) ==
    IF index_keys = <<>> THEN <<>>
    ELSE (IF Head(index_keys) \notin found
          THEN join_ctx.indexed_data[Head(index_keys)] ELSE <<>>)
         \o UnmatchedParents(Tail(index_keys), join_ctx, found)

joined_results(final_items, join_ctx, child_alias) ==
    LET j == JoinChildren(final_items, join_ctx, child_alias)
    IN j.rows \o (IF join_ctx.outer
                  THEN UnmatchedParents(join_ctx.index_keys, join_ctx, j.found)
                  ELSE <<>>)

----------------------------------------------------------------------------
(* get(): the merge resolver.                                              *)

SourceInfo(list, url) == [list |-> list, url |-> url]

\* serde_json::to_string(&source)
source_json(source) ==
    "{\"list\":\"" \o source.list \o "\",\"url\":\"" \o source.url \o "\"}"

RECURSIVE Tagged(_, _)
Tagged(final_items, source) ==
    IF final_items = <<>> THEN <<>>
    ELSE <<[item |-> Head(final_items), source |-> source]>> \o Tagged(Tail(final_items), source)

\* a slip: the rows of the current list are put before the collected ones
collected_merge_data_Prepend(self, options, final_items) ==
    Tagged(final_items, SourceInfo(self.list_id, self.base_url)) \o options.merge_data

collected_merge_data(self, options, final_items) ==
    options.merge_data \o Tagged(final_items, SourceInfo(self.list_id, self.base_url))

WithSource(entry) ==
    [ k \in DOMAIN entry.item \cup {Key("Source")} |->
        IF k = Key("Source") THEN source_json(entry.source) ELSE entry.item[k] ]

RECURSIVE MergedItems(_)
MergedItems(collected) ==
    IF collected = <<>> THEN <<>>
    ELSE <<WithSource(Head(collected))>> \o MergedItems(Tail(collected))

\* the options of the call on the next merge target
MergeNextOptions(merge_targets, collected) ==
    [Head(merge_targets).options EXCEPT
        !.merge_data = collected,
        !.merge = Some(Tail(merge_targets))]

----------------------------------------------------------------------------
(* The remote service: what a GetListItems request may be answered with.   *)

a1 == Field("ID", "1")
a2 == Field("ID", "2")
b1 == Field("pid", "1") @@ Field("name", "a")
b2 == Field("pid", "1;#one") @@ Field("name", "b")
b3 == Field("pid", "3") @@ Field("name", "c")
\* lists P, Q and R: p2 has no field k and q2 an empty one
p1 == Field("ID", "1") @@ Field("k", "7") @@ Field("x", "a_b") @@ Field("y", "c")
p2 == Field("ID", "2") @@ Field("x", "a") @@ Field("y", "b_c")
q1 == Field("pid", "1;#one") @@ Field("k", "7") @@ Field("x", "a") @@ Field("y", "b_c")
        @@ Field("r", "1")
q2 == Field("pid", "2;#two") @@ Field("k", "") @@ Field("x", "a_b") @@ Field("y", "c")
        @@ Field("r", "1")
n1 == Field("ID", "1") @@ Field("t", "z")

\* the row sequences a response of the list may decode to
RowsOf(list_id) ==
    IF list_id = "A" THEN {<<>>, <<a1>>, <<a1, a2>>}
    ELSE IF list_id = "B" THEN {<<>>, <<b3>>, <<b1, b2, b3>>}
    ELSE IF list_id = "P" THEN {<<>>, <<p1>>, <<p1, p2>>}
    ELSE IF list_id = "Q" THEN {<<>>, <<q1>>, <<q1, q2>>}
    ELSE IF list_id = "R" THEN {<<>>, <<n1>>}
    ELSE {<<>>, <<a1>>}

\* the tokens the response to the n-th request may carry
TokensOf(n) == {None, Some(TokenOf(n))}

Failures == {"SharePointError", "DecodeError"}

----------------------------------------------------------------------------
(* The requests explored.                                                  *)

WhereExpr(i) == "F" \o ToString(i) \o " = 1"
WhereSeq(n) == [i \in 1..n |-> WhereExpr(i)]

Wheres == {Single(""), Single(WhereExpr(1))} \cup {Multiple(WhereSeq(n)) : n \in 0..MaxWheres}

Pagings == {[paging |-> FALSE, page |-> 5000]}
           \cup {[paging |-> TRUE, page |-> p] : p \in 0..MaxPage}

ChildRequest == DefaultOptions

Joins ==
    { [join |-> None, outerjoin |-> None],
      [join |-> Some(JoinOptions("B", Some(OnAB), FALSE, ChildRequest)), outerjoin |-> None],
      [join |-> Some(JoinOptions("B", Some(OnAB), TRUE, ChildRequest)), outerjoin |-> None],
      [join |-> None, outerjoin |-> Some(JoinOptions("B", Some(OnAB), FALSE, ChildRequest))],
      [join |-> Some(JoinOptions("B", None, FALSE, ChildRequest)), outerjoin |-> None],
      [join |-> Some(JoinOptions("B", Some(OnBad), FALSE, ChildRequest)), outerjoin |-> None],
      [join |-> Some(JoinOptions("B", Some(OnEmpty), FALSE, ChildRequest)), outerjoin |-> None],
      [join |-> Some(JoinOptions("B", Some(OnOther), FALSE, ChildRequest)), outerjoin |-> None] }

\* merge targets C, D, E, F; D lives on a sub-site of the list before it
TargetName(i) == <<"C", "D", "E", "F">>[i]
TargetSeq(n) ==
    [i \in 1..n |-> MergeTarget(TargetName(i), IF i = 2 THEN Some("sub/") ELSE None,
                                DefaultOptions)]

Merges == {None} \cup {Some(TargetSeq(n)) : n \in 0..MaxTargets}

BaseUrl == "http://sp/site/"

\* the most GetListItems rounds a request can need
WorstRounds(w, pg, j, m) ==
    (IF w.multi /\ Len(w.v) > 1 THEN Len(w.v) ELSE 1)
    + (IF pg.paging /\ pg.page > 1 THEN pg.page - 1 ELSE 0)
    + (IF IsSome(j.join) \/ IsSome(j.outerjoin) THEN 1 ELSE 0)
    + (IF IsSome(m) THEN Len(Unwrap(m)) ELSE 0)

Requests ==
    { [ self |-> SharePointList(l, BaseUrl),
        options |-> [DefaultOptions EXCEPT
                        !.where_clause = w, !.progress = TRUE,
                        !.paging = pg.paging, !.page = pg.page,
                        !.join = j.join, !.outerjoin = j.outerjoin, !.merge = m] ] :
      <<l, w, pg, j, m>> \in
        { t \in {"A", ""} \X Wheres \X Pagings \X Joins \X Merges :
            WorstRounds(t[2], t[3], t[4], t[5]) <= MaxRounds } }
    \cup
    \* the same on a view without fields, sort or filter, and on a view the
    \* site does not have
    { [ self |-> SharePointList("A", BaseUrl),
        options |-> [DefaultOptions EXCEPT
                        !.where_clause = w, !.progress = TRUE, !.view = Some(v),
                        !.join = j.join, !.outerjoin = j.outerjoin] ] :
      v \in {"Bare", "Gone"}, w \in {Single(""), Multiple(WhereSeq(2))},
      j \in {jn \in Joins : jn.join \in {None, Some(JoinOptions("B", Some(OnAB), FALSE, ChildRequest))}
                             /\ jn.outerjoin = None} }

----------------------------------------------------------------------------
(* The state machine.                                                      *)

NoLocals ==
    [ list_alias |-> "", is_paging_or_multiwhere |-> FALSE,
      current_where |-> Single(""), is_where_caml |-> FALSE ]

Pending == [ok |-> FALSE, items |-> <<>>, next_page_token |-> None, err |-> "pending"]

Init ==
    /\ pc = "start"
    /\ frame \in Requests
    /\ request = frame
    /\ locals = NoLocals
    /\ stack = <<>>
    /\ net = <<>>
    /\ sink = <<>>
    /\ outcome = Pending
    /\ lookups = <<>>
    /\ response_text = <<>>
    /\ decoded = NotDecoded
    /\ ColdStart

\* `?` and `return Err(..)`: the error unwinds every suspended invocation
Fail(e) ==
    /\ pc' = "done"
    /\ outcome' = Err(e)
    /\ stack' = <<>>
    /\ UNCHANGED <<frame, locals, sink>>

\* Ok(GetListItemsResult { .. }) of the running invocation
Return(options, is_pm, final_items, response_next_page_token, stk) ==
    /\ sink' = sink \o FinalProgress(options, is_pm, final_items)
    /\ outcome' = GetListItemsResult(final_items, response_next_page_token)
    /\ pc' = IF stk = <<>> THEN "done" ELSE "return"
    /\ stack' = stk
    /\ UNCHANGED <<frame, locals>>

\* the call of get() on another list or with other options
Call(self, options, stk, calls) ==
    /\ pc' = "start"
    /\ frame' = [self |-> self, options |-> options]
    /\ stack' = stk
    /\ sink' = sink \o calls
    /\ UNCHANGED <<locals, outcome>>

\* "Handle Merge" and "Final Result"
Finish(self, options, is_pm, final_items, response_next_page_token, stk) ==
    IF IsSome(options.merge)
    THEN LET collected == collected_merge_data(self, options, final_items)
             merge_targets == Unwrap(options.merge)
         IN IF merge_targets # <<>>
            THEN Call(SharePointList(Head(merge_targets).list,
                                     ResolveUrl(self.base_url, Head(merge_targets).url)),
                      MergeNextOptions(merge_targets, collected), stk, <<>>)
            ELSE Return(options, is_pm, MergedItems(collected), response_next_page_token, stk)
    ELSE Return(options, is_pm, final_items, response_next_page_token, stk)

\* "Handle Joins", then the merge and the final result
Resolve(self, options, loc, final_items, response_next_page_token) ==
    LET ej == effective_join_options(options)
    IN IF IsSome(ej)
       THEN LET join_opts == Unwrap(ej).opts
                is_outer == Unwrap(ej).outer \/ join_opts.outer
                oc == on_clause(join_opts, loc.list_alias)
                parsed == parse_on_clause(Unwrap(oc))
            IN IF final_items # <<>>
               THEN IF ~IsSome(oc) \/ ~parsed.ok \/ parsed.pairs = <<>>
                    THEN Fail("InvalidJoinOnClause")
                    ELSE \E lookup_order \in
                              iteration_orders(join_lookup_values_for_where(
                                  final_items, parsed.pairs, loc.list_alias, join_opts)) :
                            Call(SharePointList(join_opts.list,
                                                ResolveUrl(self.base_url, join_opts.url)),
                                 child_options(join_opts,
                                     JoinData(final_items, parsed.pairs, loc.list_alias, is_outer),
                                     lookup_order),
                                 <<[ self |-> self, options |-> options, locals |-> loc,
                                     response_next_page_token |-> response_next_page_token ]>>
                                 \o stack,
                                 <<>>)
               ELSE Finish(self, options, loc.is_paging_or_multiwhere, <<>>,
                           response_next_page_token, stack)
       ELSE IF IsSome(options.join_data)
            THEN Finish(self, options, loc.is_paging_or_multiwhere,
                        joined_results(final_items, Unwrap(options.join_data),
                                       list_alias(self, options)),
                        response_next_page_token, stack)
            ELSE Finish(self, options, loc.is_paging_or_multiwhere, final_items,
                        response_next_page_token, stack)

\* a slip: the request is issued twice, the second without waiting
Send_FanOut(p) ==
    /\ frame' = [frame EXCEPT !.options = p.options]
    /\ locals' = [ list_alias |-> p.list_alias,
                   is_paging_or_multiwhere |-> p.is_paging_or_multiwhere,
                   current_where |-> p.current_where,
                   is_where_caml |-> p.is_where_caml ]
    /\ net' = net \o << [doc |-> p.doc, status |-> "sent", rows |-> <<>>, token |-> None],
                        [doc |-> p.doc, status |-> "sent", rows |-> <<>>, token |-> None] >>
    /\ pc' = "await"
    /\ UNCHANGED <<stack, sink, outcome>>

\* the request leaves and the invocation waits for the response
Send(p) ==
    /\ frame' = [frame EXCEPT !.options = p.options]
    /\ locals' = [ list_alias |-> p.list_alias,
                   is_paging_or_multiwhere |-> p.is_paging_or_multiwhere,
                   current_where |-> p.current_where,
                   is_where_caml |-> p.is_where_caml ]
    /\ net' = Append(net, [doc |-> p.doc, status |-> "sent", rows |-> <<>>, token |-> None])
    /\ pc' = "await"
    /\ UNCHANGED <<stack, sink, outcome>>

\* get_view_details(..).await: the invocation waits for the view
AwaitView(at) ==
    /\ pc' = at
    /\ UNCHANGED <<frame, locals, stack, net, sink, outcome>>

\* get() from its entry to the first point it waits at: the view lookup of
\* a request that names a view, the request it sends otherwise
Start ==
    /\ pc = "start"
    /\ UNCHANGED aside
    /\ IF frame.self.list_id = ""
       THEN Fail("MissingListId") /\ UNCHANGED <<net, lookups>>
       ELSE LET hv == HandleView(frame.self, frame.options)
            IN /\ lookups' = lookups \o hv.resolved
               /\ IF hv.resolved # <<>>
                  THEN AwaitView("view")
                  ELSE \E order \in iteration_orders(hv.current_fields),
                          now \in clock_readings(hv.options) :
                          Send(Prologue(frame.self, frame.options, order, now))

\* the view has arrived: get() goes on to the request it sends, or fails
\* with the lookup's error
ReceiveView ==
    /\ pc = "view"
    /\ UNCHANGED aside
    /\ UNCHANGED lookups
    /\ LET hv == HandleView(frame.self, frame.options)
       IN IF ~hv.ok
          THEN Fail(hv.err) /\ UNCHANGED net
          ELSE \E order \in iteration_orders(hv.current_fields),
                  now \in clock_readings(hv.options) :
                  Send(Prologue(frame.self, frame.options, order, now))

\* a slip: the failed request is sent again
ReceiveFailure_Retry ==
    /\ pc = "await"
    /\ UNCHANGED lookups
    /\ \E e \in Failures : net' = [net EXCEPT ![Len(net)].status = e]
    /\ pc' = "start"
    /\ UNCHANGED <<frame, locals, stack, sink, outcome>>
    /\ UNCHANGED aside

\* a non-success status, or a response that does not decode
ReceiveFailure ==
    /\ pc = "await"
    /\ UNCHANGED aside
    /\ UNCHANGED lookups
    /\ \E e \in Failures :
        /\ net' = [net EXCEPT ![Len(net)].status = e]
        /\ Fail(e)

\* a slip: a join is resolved on the rows of the round just decoded
Continue_ResolveEarly(self, options, loc, parsed_items, response_next_page_token) ==
    Resolve(self, options, loc, options.results \o parsed_items, response_next_page_token)

\* the rounds decided after a response: next page, next filter, or the end
Continue(self, options, loc, parsed_items, response_next_page_token) ==
    LET combined_results == options.results \o parsed_items
    IN IF PagingContinues(options, response_next_page_token)
       THEN Call(self,
                 PagingNextOptions(options, combined_results, Unwrap(response_next_page_token)),
                 stack,
                 IF options.progress THEN <<Progress(Len(combined_results), None)>> ELSE <<>>)
       ELSE IF options.next_where # <<>>
            THEN Call(self, MultiWhereNextOptions(options, combined_results), stack,
                      IF options.progress THEN <<MultiWhereProgress(options)>> ELSE <<>>)
            ELSE Resolve(self, options, loc, combined_results, response_next_page_token)

\* a success response: its rows are decoded and the call goes on
Receive ==
    /\ pc = "await"
    /\ UNCHANGED aside
    /\ UNCHANGED lookups
    /\ \E parsed_items \in RowsOf(frame.self.list_id), token \in TokensOf(Len(net)) :
        /\ net' = [net EXCEPT ![Len(net)] =
                      [@ EXCEPT !.status = "ok", !.rows = parsed_items, !.token = token]]
        /\ Continue(frame.self, frame.options, locals, parsed_items, token)

\* the parent of a join takes the child call's result as its own rows
JoinReturn ==
    /\ pc = "return"
    /\ UNCHANGED aside
    /\ UNCHANGED lookups
    /\ stack # <<>>
    /\ LET parent == Head(stack)
       IN Finish(parent.self, parent.options, parent.locals.is_paging_or_multiwhere,
                 outcome.items, parent.response_next_page_token, Tail(stack))
    /\ UNCHANGED net

Next == Start \/ ReceiveView \/ ReceiveFailure \/ Receive \/ JoinReturn

Spec == Init /\ [][Next]_vars

----------------------------------------------------------------------------
(* The decoder on its own: one response document, decoded once.            *)

MaxRowElements == 3

AttrsOne == <<Attr(<<"ows_", "ID">>, "1"), Attr(<<"ows_", "Title">>, "Ok")>>
AttrsTwo ==
    << Attr(<<"ows_", "ID">>, "2"), Attr(<<"xmlns:z">>, "#RowsetSchema"),
       Attr(<<"ows_", "ows_", "Note">>, "a&amp;b") >>

SelfClosing(name, attributes) == <<Event("Empty", name, attributes)>>
OpenClose(name, attributes) == <<Event("Start", name, attributes), Event("End", name, <<>>)>>

\* the ways one row element reaches the event loop
RowElements ==
    UNION { {SelfClosing("z:row", a), OpenClose("z:row", a), OpenClose("row", a)} :
            a \in {AttrsOne, AttrsTwo} }

DataAttributes ==
    { <<Attr(<<"ItemCount">>, "n")>>,
      <<Attr(<<"ItemCount">>, "n"),
        Attr(<<"ListItemCollectionPositionNext">>, "Paged=TRUE&amp;p_ID=1")>>,
      <<Attr(<<"ListItemCollectionPositionNext">>, "")>> }

\* <listitems><rs:data ..> rows </rs:data></listitems>, whole or cut short
Document(data_attributes, rows, whole) ==
    <<Event("Start", "listitems", <<>>), Event("Start", "rs:data", data_attributes)>>
    \o Flatten(rows)
    \o (IF whole THEN <<Event("End", "rs:data", <<>>), Event("End", "listitems", <<>>)>>
        ELSE <<Event("Error", "", <<>>)>>)

Responses ==
    { Document(d, rows, whole) :
        d \in DataAttributes,
        rows \in UNION {[1..n -> RowElements] : n \in 0..MaxRowElements},
        whole \in BOOLEAN }

DecodeFrames ==
    { [ self |-> SharePointList("A", BaseUrl),
        options |-> [DefaultOptions EXCEPT !.show_list_in_attribute = show,
                                           !.is_join_child = child,
                                           !.alias = alias] ] :
      show \in BOOLEAN, child \in BOOLEAN, alias \in {None, Some("L")} }

DecodeInit ==
    /\ pc = "decode"
    /\ frame \in DecodeFrames
    /\ request = frame
    /\ locals = NoLocals
    /\ stack = <<>>
    /\ net = <<>>
    /\ sink = <<>>
    /\ outcome = Pending
    /\ lookups = <<>>
    /\ response_text \in Responses
    /\ decoded = NotDecoded
    /\ ColdStart

\* the event loop run over the whole response; a reader error ends get()
Decode ==
    /\ pc = "decode"
    /\ decoded' = parse_response(response_text, frame.self, frame.options)
    /\ IF decoded'.ok
       THEN pc' = "decoded" /\ UNCHANGED outcome
       ELSE pc' = "done" /\ outcome' = Err("DecodeError")
    /\ UNCHANGED <<frame, locals, stack, net, sink, request, lookups, response_text>>
    /\ UNCHANGED metadata

DecodeNext == Decode

DecodeSpec == DecodeInit /\ [][DecodeNext]_vars

----------------------------------------------------------------------------
(* The query compiler on its own: the caller enters get() with the same    *)
(* request several times and the document of the first round is kept.      *)

MaxCompilations == 2

Fields == {<<>>, <<"Title", "ID">>}
Views == {None, Some(""), Some("Tasks"), Some("Plain"), Some("Bare"), Some("Gone")}
OrderBys == {None, Some(<<"Title DESC", "ID">>)}
CompileWheres ==
    { Single(""), Single(WhereExpr(1)), Multiple(<<>>), Multiple(WhereSeq(2)),
      Multiple(<<"", WhereExpr(1)>>) }
Calendars ==
    { [calendar |-> FALSE, calendar_options |-> None],
      [calendar |-> TRUE, calendar_options |-> None],
      [calendar |-> TRUE,
       calendar_options |-> Some([split_recurrence |-> FALSE, reference_date |-> 1,
                                  range |-> "Week"])] }

CompileRequests ==
    { [ self |-> SharePointList("A", BaseUrl),
        options |-> [DefaultOptions EXCEPT
                        !.fields = f, !.view = v, !.orderby = o,
                        !.where_clause = w, !.where_caml = c,
                        !.calendar = cal.calendar, !.calendar_options = cal.calendar_options,
                        !.paging = pg, !.page = IF pg THEN 2 ELSE 5000] ] :
      f \in Fields, v \in Views, o \in OrderBys, w \in CompileWheres, c \in BOOLEAN,
      cal \in Calendars, pg \in BOOLEAN }

CompileInit ==
    /\ pc = "compile"
    /\ frame \in CompileRequests
    /\ request = frame
    /\ locals = NoLocals
    /\ stack = <<>>
    /\ net = <<>>
    /\ sink = <<>>
    /\ outcome = Pending
    /\ lookups = <<>>
    /\ response_text = <<>>
    /\ decoded = NotDecoded
    /\ ColdStart

\* the request of the caller compiled and sent; the caller may enter again
CompileAndSend(hv) ==
    \E order \in iteration_orders(hv.current_fields), now \in clock_readings(hv.options) :
        LET p == Prologue(request.self, request.options, order, now)
        IN /\ frame' = [frame EXCEPT !.options = p.options]
           /\ locals' = [ list_alias |-> p.list_alias,
                          is_paging_or_multiwhere |-> p.is_paging_or_multiwhere,
                          current_where |-> p.current_where,
                          is_where_caml |-> p.is_where_caml ]
           /\ net' = Append(net, [ doc |-> p.doc, status |-> "sent",
                                   rows |-> <<>>, token |-> None ])
           /\ pc' = "compile"
           /\ UNCHANGED <<stack, sink, outcome>>

\* get() entered with the caller's request, up to the first point it waits
\* at: the view lookup, or the request it sends
Compile ==
    /\ pc = "compile"
    /\ Len(net) < MaxCompilations
    /\ UNCHANGED aside
    /\ IF request.self.list_id = ""
       THEN Fail("MissingListId") /\ UNCHANGED <<net, lookups>>
       ELSE LET hv == HandleView(request.self, request.options)
            IN /\ lookups' = lookups \o hv.resolved
               /\ IF hv.resolved # <<>>
                  THEN AwaitView("compile_view")
                  ELSE CompileAndSend(hv)

\* the view has arrived: the request is compiled and sent, or the call
\* fails with the lookup's error
CompileView ==
    /\ pc = "compile_view"
    /\ UNCHANGED aside
    /\ UNCHANGED lookups
    /\ LET hv == HandleView(request.self, request.options)
       IN IF ~hv.ok
          THEN Fail(hv.err) /\ UNCHANGED net
          ELSE CompileAndSend(hv)

CompileNext == Compile \/ CompileView

CompileSpec == CompileInit /\ [][CompileNext]_vars

----------------------------------------------------------------------------
(* What the claims speak about, read off the exchange log.                 *)

IsBase(e) == e.doc.listName = request.self.list_id /\ e.doc.url = request.self.base_url

BaseRounds == SelectSeq(net, IsBase)
OtherRounds == SelectSeq(net, LAMBDA e : ~IsBase(e))

RoundRows(rounds) == Flatten([i \in 1..Len(rounds) |-> rounds[i].rows])

Finished == pc = "done" /\ outcome.ok

ReqWhere == request.options.where_clause
FilterCount == Len(ReqWhere.v)
NoJoin == ~IsSome(request.options.join) /\ ~IsSome(request.options.outerjoin)
NoMerge == ~IsSome(request.options.merge)
PagingOff == ~request.options.paging

\* the filter block a round for expression s must carry
ExpectedWhere(s) ==
    IF s = "" THEN ""
    ELSE IF request.options.where_caml THEN "<Where>" \o s \o "</Where>"
    ELSE "<Where><Caml>" \o s \o "</Caml></Where>"

\* filter sequence, paging disabled: as many rounds as expressions, round i
\* compiled with expression i, rows concatenated in round order
FilterRoundsInOrder ==
    /\ Len(BaseRounds) <= FilterCount
    /\ \A i \in 1..Len(BaseRounds) : BaseRounds[i].doc.where_xml = ExpectedWhere(ReqWhere.v[i])
    /\ Finished =>
          /\ Len(BaseRounds) = FilterCount
          /\ (NoJoin /\ NoMerge) => outcome.items = RoundRows(BaseRounds)

\* C1 as stated: for a filter sequence of any length N, paging disabled,
\* exactly N rounds run, round i with expression i, and the rows returned are
\* the rounds' rows in order.
C1_AnySequence == (ReqWhere.multi /\ PagingOff) => FilterRoundsInOrder

\* C1, amended to sequences of N >= 1 expressions.
C1_NonEmptySequence == (ReqWhere.multi /\ FilterCount >= 1 /\ PagingOff) => FilterRoundsInOrder

C1_Witness ==
    /\ Finished /\ ReqWhere.multi /\ FilterCount = 3 /\ PagingOff /\ NoJoin /\ NoMerge
    /\ Len(BaseRounds) = 3
    /\ BaseRounds[1].rows = <<a1>> /\ BaseRounds[2].rows = <<>> /\ BaseRounds[3].rows = <<a1, a2>>
    /\ outcome.items = <<a1, a1, a2>>

\* the sink calls (1,N), (2,N), ..., (N,N)
AllFilterProgress(n) == [k \in 1..n |-> Progress(k, Some(n))]

\* C2: for a filter sequence of N >= 1 expressions with a progress sink and
\* paging disabled, a finished call has made exactly the sink calls (1,N),
\* (2,N), ..., (N,N), the last one reporting k = N.
C2_ProgressPerRound ==
    (Finished /\ ReqWhere.multi /\ FilterCount >= 1 /\ PagingOff /\ request.options.progress
        /\ NoJoin /\ NoMerge)
        => sink = AllFilterProgress(FilterCount)

\* C3: paging enabled, one filter expression, no join or merge: every round
\* after the first is sent with the (cleaned) token of the round before it;
\* the call stops at the first round whose token is empty, and otherwise only
\* when the page budget is used up; when the last token is empty the result is
\* the concatenation of the rounds' rows and carries no token.
C3_PagingRounds ==
    (request.options.paging /\ ~ReqWhere.multi /\ NoJoin /\ NoMerge) =>
        /\ \A k \in 1..(Len(BaseRounds) - 1) :
              /\ IsSome(BaseRounds[k].token)
              /\ BaseRounds[k + 1].doc.paging = clean_string(Unwrap(BaseRounds[k].token))
        /\ Finished =>
              LET K == Len(BaseRounds)
              IN /\ K >= 1
                 /\ IsSome(BaseRounds[K].token) => K >= request.options.page
                 /\ ~IsSome(BaseRounds[K].token) =>
                       /\ outcome.next_page_token = None
                       /\ outcome.items = RoundRows(BaseRounds)

C3_Witness ==
    /\ Finished /\ request.options.paging /\ ~ReqWhere.multi /\ NoJoin /\ NoMerge
    /\ request.options.page >= 3
    /\ Len(BaseRounds) = 3
    /\ BaseRounds[3].token = None
    /\ outcome.items = <<a1, a2, a1, a1, a2>>

\* C4: without paging, or with a page budget of exactly 1, every filter
\* expression gets exactly one round even when that round returns a token; and
\* for a single filter expression and no merge the Result carries exactly the
\* token of that one round.
C4_TokenPassedThrough ==
    (Finished /\ (PagingOff \/ request.options.page = 1)) =>
        /\ Len(BaseRounds) = (IF ReqWhere.multi /\ FilterCount > 1 THEN FilterCount ELSE 1)
        /\ (~ReqWhere.multi /\ NoMerge) => outcome.next_page_token = BaseRounds[1].token

C4_Witness ==
    /\ Finished /\ ~ReqWhere.multi /\ NoMerge /\ NoJoin
    /\ request.options.paging /\ request.options.page = 1
    /\ Len(net) = 1
    /\ outcome.next_page_token = Some(TokenOf(1))

\* C5: paging disabled, a single filter expression, no join, no merge: exactly
\* one GetListItems request is issued and the result rows are the rows decoded
\* from its response, in response order.
C5_OneRoundTrip ==
    (PagingOff /\ ~ReqWhere.multi /\ NoJoin /\ NoMerge) =>
        /\ Len(net) <= 1
        /\ Finished => (Len(net) = 1 /\ outcome.items = net[1].rows)

C5_Witness ==
    /\ Finished /\ PagingOff /\ ~ReqWhere.multi /\ NoJoin /\ NoMerge
    /\ ReqWhere.v[1] # ""
    /\ net[1].token = Some(TokenOf(1))
    /\ outcome.items = <<a1, a2>>

----------------------------------------------------------------------------
(* Joins and merges, stated without the resolver's own operators.          *)

Count(seq, r) == Cardinality({i \in 1..Len(seq) : seq[i] = r})

\* the value a row is matched on: the ID portion of a compound lookup value
KeyValue(v) == IF v = "1;#one" THEN "1" ELSE IF v = "2;#two" THEN "2" ELSE v

Under(alias, row) == [k \in {<<alias>> \o f : f \in DOMAIN row} |-> row[Tail(k)]]
JoinedRecord(p, c) == Under("B", c) @@ Under("A", p)

ReqJoin ==
    IF IsSome(request.options.join) THEN Unwrap(request.options.join)
    ELSE Unwrap(request.options.outerjoin)
JoinOnAB == ~NoJoin /\ ReqJoin.on = Some(OnAB)
IsOuterJoin == ~IsSome(request.options.join) \/ ReqJoin.outer

ParentRows == RoundRows(BaseRounds)
ChildRows == RoundRows(OtherRounds)
Matches(p, c) == KeyValue(p[Key("ID")]) = KeyValue(c[Key("pid")])
MatchedPairs(P, C) == {t \in (1..Len(P)) \X (1..Len(C)) : Matches(P[t[1]], C[t[2]])}
UnmatchedParentRows(P, C) == {i \in 1..Len(P) : \A j \in 1..Len(C) : ~Matches(P[i], C[j])}

\* how often record r must occur in the join of parent rows P and child rows C
ExpectedCount(r, P, C, outer) ==
    Cardinality({t \in MatchedPairs(P, C) : JoinedRecord(P[t[1]], C[t[2]]) = r})
    + (IF outer
       THEN Cardinality({i \in UnmatchedParentRows(P, C) : Under("A", P[i]) = r})
       ELSE 0)

\* C6: a join on the one ON-pair A.ID = B.pid returns one merged record per
\* (parent row, child row) pair with equal key values, for an outer join also
\* one parent-only record per parent row that matches no child row, and
\* nothing else: no record of a child row that matches no parent row.
C6_JoinPairs ==
    (Finished /\ JoinOnAB /\ NoMerge) =>
        LET P == ParentRows
            C == ChildRows
            outer == IsOuterJoin
        IN /\ Len(outcome.items) = Cardinality(MatchedPairs(P, C))
                                   + (IF outer THEN Cardinality(UnmatchedParentRows(P, C)) ELSE 0)
           /\ \A r \in Range(outcome.items) :
                 Count(outcome.items, r) = ExpectedCount(r, P, C, outer)
           /\ \A r \in Range(outcome.items) :
                 Prefixed("B", Key("pid")) \in DOMAIN r
                    => KeyValue(r[Prefixed("B", Key("pid"))]) # "3"

\* parents 1 and 2, children of parent 1 (two) and of a parent 3, outer join
C6_Witness ==
    /\ Finished /\ JoinOnAB /\ NoMerge /\ IsOuterJoin
    /\ ParentRows = <<a1, a2>>
    /\ ChildRows = <<b1, b2, b3>>
    /\ outcome.items = <<JoinedRecord(a1, b1), JoinedRecord(a1, b2), Under("A", a2)>>

ExpectedSource(list, url) ==
    IF list = "A" /\ url = "http://sp/site/" THEN "{\"list\":\"A\",\"url\":\"http://sp/site/\"}"
    ELSE IF list = "C" /\ url = "http://sp/site/" THEN "{\"list\":\"C\",\"url\":\"http://sp/site/\"}"
    ELSE IF list = "D" /\ url = "http://sp/site/sub/"
         THEN "{\"list\":\"D\",\"url\":\"http://sp/site/sub/\"}"
    ELSE IF list = "E" /\ url = "http://sp/site/sub/"
         THEN "{\"list\":\"E\",\"url\":\"http://sp/site/sub/\"}"
    ELSE IF list = "F" /\ url = "http://sp/site/sub/"
         THEN "{\"list\":\"F\",\"url\":\"http://sp/site/sub/\"}"
    ELSE "?"

SourceTagged(e) ==
    [i \in 1..Len(e.rows) |-> e.rows[i] @@ (Key("Source") :> ExpectedSource(e.doc.listName, e.doc.url))]

MergeLists ==
    <<request.self.list_id>>
    \o [i \in 1..Len(Unwrap(request.options.merge)) |-> Unwrap(request.options.merge)[i].list]

ListPosition(e) == CHOOSE i \in 1..Len(MergeLists) : MergeLists[i] = e.doc.listName

\* C7: a merge returns the rows of the initiating list, then those of target
\* 1, ..., then those of target n, each list's rows in retrieval order, every
\* row tagged with the list and base URL it came from, none dropped.
C7_MergeInSourceOrder ==
    (Finished /\ ~NoMerge /\ NoJoin) =>
        /\ \A i \in 1..Len(net) : \E k \in 1..Len(MergeLists) : MergeLists[k] = net[i].doc.listName
        /\ \A i, j \in 1..Len(net) : i < j => ListPosition(net[i]) <= ListPosition(net[j])
        /\ \A k \in 1..Len(MergeLists) : \E i \in 1..Len(net) : ListPosition(net[i]) = k
        /\ outcome.items = Flatten([i \in 1..Len(net) |-> SourceTagged(net[i])])
        /\ Len(outcome.items) = Len(RoundRows(net))

C7_Witness ==
    /\ Finished /\ ~NoMerge /\ NoJoin
    /\ Len(MergeLists) = 3
    /\ Len(outcome.items) = 3
    /\ outcome.items[1][Key("ID")] = "1" /\ outcome.items[2][Key("ID")] = "1"
    /\ outcome.items[1][Key("Source")] # outcome.items[2][Key("Source")]
    /\ outcome.items[3][Key("Source")] = ExpectedSource("D", "http://sp/site/sub/")

----------------------------------------------------------------------------
(* Ordering of the base retrieval and the join or merge; failures.         *)

Segments == IF ReqWhere.multi /\ FilterCount > 1 THEN FilterCount ELSE 1

\* every filter segment was sent, every round answered, and the last round
\* left nothing to page: no token, or no paging, or no page budget
BaseComplete ==
    LET base == BaseRounds
    IN /\ Len(base) >= Segments
       /\ \A i \in 1..Len(base) : base[i].status = "ok"
       /\ \/ ~request.options.paging
          \/ ~IsSome(base[Len(base)].token)
          \/ request.options.page - (Len(base) - Segments) <= 1

IndexRows(jd) == Flatten([i \in 1..Len(jd.index_keys) |-> jd.indexed_data[jd.index_keys[i]]])

OnAnotherList == frame.self.list_id # request.self.list_id

\* C8: a request to the join child or to a merge target is issued, and the
\* join index exists, only once the base retrieval is complete; no base round
\* follows; the index (the merge accumulator) holds every accumulated base row.
C8_JoinAfterAllRounds ==
    /\ \A i, j \in 1..Len(net) : (i < j /\ IsBase(net[j])) => IsBase(net[i])
    /\ (OtherRounds # <<>> \/ OnAnotherList \/ stack # <<>>) => BaseComplete
    /\ (IsSome(frame.options.join_data) /\ JoinOnAB) =>
          LET rows == IndexRows(Unwrap(frame.options.join_data))
              P == ParentRows
          IN /\ Len(rows) = Len(P)
             /\ \A r \in Range(P) : Count(rows, Under("A", r)) = Count(P, r)
    /\ (OnAnotherList /\ NoJoin /\ ~NoMerge /\ pc \in {"start", "view", "await"}) =>
          LET P == ParentRows
          IN /\ Len(frame.options.merge_data) >= Len(P)
             /\ \A i \in 1..Len(P) : frame.options.merge_data[i].item = P[i]

\* two filter segments, the first one paged, then the child request
C8_Witness ==
    /\ pc = "await" /\ frame.self.list_id = "B" /\ IsSome(frame.options.join_data)
    /\ ReqWhere.multi /\ FilterCount = 2 /\ request.options.paging
    /\ Len(BaseRounds) = 3
    /\ IsSome(BaseRounds[1].token)
    /\ Len(ParentRows) >= 4

\* C9: a round that fails is the last request of the call: the call is over,
\* it returned an error that carries no rows, and nothing was sent again.
C9_FailureAbortsCall ==
    \A i \in 1..Len(net) :
        net[i].status \in Failures =>
            /\ i = Len(net)
            /\ pc = "done"
            /\ ~outcome.ok
            /\ outcome.items = <<>>
            /\ outcome.err = net[i].status

\* the join child fetch fails after two successful base rounds with rows
C9_Witness ==
    /\ Len(net) = 3
    /\ net[3].status = "DecodeError" /\ net[3].doc.listName = "B"
    /\ RoundRows(BaseRounds) = <<a1, a1, a2>>
    /\ pc = "done" /\ ~outcome.ok

ConfigErrors == {"MissingListId", "InvalidJoinOnClause"}

\* C10: a call that fails with a configuration error has issued no network
\* request.
C10_ConfigErrorBeforeNetwork ==
    (pc = "done" /\ outcome.err \in ConfigErrors) => net = <<>>

\* an ON-clause that does not parse, or whose pairs name neither list
InvalidJoinSpec == ~NoJoin /\ ReqJoin.on \in {Some(OnBad), Some(OnOther)}

AllAnswered == \A i \in 1..Len(net) : net[i].status = "ok"

\* C11: a join whose ON-clause cannot be parsed, or whose pairs reference
\* neither the parent's nor the child's alias, ends in the invalid-join error
\* whatever rows the parent retrieval returned (none included); the call
\* never returns a successful result.
C11_InvalidJoinAlwaysFails ==
    (pc = "done" /\ request.self.list_id # "" /\ InvalidJoinSpec /\ AllAnswered) =>
        (~outcome.ok /\ outcome.err = "InvalidJoinOnClause")

\* C16: at most one request of the call chain is outstanding at any time,
\* and it is the one issued last: a request (paging round, filter round, join
\* child fetch, merge target fetch) is issued only once every earlier one has
\* been answered and the invocation that awaited it has gone on.
C16_OneRequestAtATime ==
    /\ \A i \in 1..Len(net) : net[i].status = "sent" => (i = Len(net) /\ pc = "await")
    /\ pc = "await" => (net # <<>> /\ net[Len(net)].status = "sent")

\* two base rounds on A, the join child fetch on B, the merge target fetch
\* on C outstanding
C16_Witness ==
    /\ pc = "await"
    /\ Len(net) = 4
    /\ net[1].doc.listName = "A" /\ net[2].doc.listName = "A"
    /\ net[3].doc.listName = "B" /\ net[4].doc.listName = "C"
    /\ \A i \in 1..3 : net[i].status = "ok"
    /\ net[4].status = "sent"

\* the filter segment a base round belongs to: a round sent without a page
\* token opens the next segment
SegmentOf(i) == Cardinality({k \in 1..i : BaseRounds[k].doc.paging = ""})

\* C20: paging enabled, the filter a sequence of expressions: every round of
\* segment i, its continuation pages included, is compiled with expression
\* i; no continuation round carries an empty filter or another expression
\* than the round before it.
C20_ContinuationKeepsFilter ==
    (request.options.paging /\ ReqWhere.multi /\ FilterCount >= 1) =>
        \A i \in 1..Len(BaseRounds) :
            /\ SegmentOf(i) \in 1..FilterCount
            /\ BaseRounds[i].doc.where_xml = ExpectedWhere(ReqWhere.v[SegmentOf(i)])

----------------------------------------------------------------------------
(* The decoder's claims.                                                   *)

\* the row elements of a document, in document order
RowsIn(doc) == SelectSeq(doc, LAMBDA e : e.type \in {"Start", "Empty"} /\ e.name \in {"z:row", "row"})

\* the ID attribute value of a row element
IdOf(e) == (CHOOSE i \in 1..Len(e.attributes) : e.attributes[i].key = <<"ows_", "ID">>)

IdKey == IF request.options.show_list_in_attribute /\ ~request.options.is_join_child
         THEN (IF IsSome(request.options.alias) THEN <<"L", "ID">> ELSE <<"A", "ID">>)
         ELSE <<"ID">>

\* C12: a decoded response has exactly one Record per row element, in
\* document order, for self-closing and for open/close row elements alike.
C12_OneRecordPerRow ==
    (pc = "decoded") =>
        LET rows == RowsIn(response_text)
        IN /\ Len(decoded.parsed_items) = Len(rows)
           /\ \A i \in 1..Len(rows) :
                 decoded.parsed_items[i][IdKey] = rows[i].attributes[IdOf(rows[i])].value

\* the field name an ows_ attribute key stands for
FieldName(key) ==
    IF key = <<"ows_", "ID">> THEN "ID"
    ELSE IF key = <<"ows_", "Title">> THEN "Title"
    ELSE IF key = <<"ows_", "ows_", "Note">> THEN "ows_Note"
    ELSE "?"

\* the value an attribute's text stands for
ValueOf(text) == IF text = "a&amp;b" THEN "a&b" ELSE text

AliasPrefixed == request.options.show_list_in_attribute /\ ~request.options.is_join_child
RequestAlias == IF IsSome(request.options.alias) THEN "L" ELSE "A"

ExpectedKey(key) ==
    IF AliasPrefixed THEN <<RequestAlias, FieldName(key)>> ELSE <<FieldName(key)>>

OwsAttributes(e) == {i \in 1..Len(e.attributes) : Head(e.attributes[i].key) = "ows_"}

\* the Record is the image of the row element: one entry per ows_ attribute,
\* ows_X="v" as X -> v, under the key alias.X when show_list_in_attribute is
\* set and the call is not a join child, under the key X otherwise
ImageOf(record, e) ==
    /\ DOMAIN record = {ExpectedKey(e.attributes[a].key) : a \in OwsAttributes(e)}
    /\ \A a \in OwsAttributes(e) :
          record[ExpectedKey(e.attributes[a].key)] = ValueOf(e.attributes[a].value)

\* C13: every row element of a decoded response has its Record, with one
\* entry per ows_ attribute of the element: ows_X="v" gives X -> v, under the
\* key alias.X exactly when show_list_in_attribute is set and the call is not
\* a join child.
C13_AttributesBecomeEntries ==
    (pc = "decoded") =>
        LET rows == RowsIn(response_text)
        IN \A i \in 1..Len(rows) :
              \E j \in 1..Len(decoded.parsed_items) : ImageOf(decoded.parsed_items[j], rows[i])

\* what the decoder does keep of it: every Record it produces is the image
\* of a row element, the j-th Record of the j-th element or a later one
DecodedRecordsAreImages ==
    (pc = "decoded") =>
        LET rows == RowsIn(response_text)
        IN \A j \in 1..Len(decoded.parsed_items) :
              \E i \in j..Len(rows) : ImageOf(decoded.parsed_items[j], rows[i])

----------------------------------------------------------------------------
(* The compiler's claims.                                                  *)

\* C14: the documents compiled from the same request are byte-identical,
\* whenever and however often the request is compiled.
C14_CompileIsDeterministic ==
    \A i, j \in 1..Len(net) : net[i].doc = net[j].doc

\* the request's first filter expression ("" when there is none)
FirstExpression ==
    IF ReqWhere.v = <<>> THEN "" ELSE ReqWhere.v[1]

ViewHasFilter == request.options.view = Some("Tasks")

\* C15: the compiled document has a <Where> block exactly when the filter
\* in effect (the round's filter expression, the view's filter) is non-empty
\* or calendar expansion is active; there is never an empty <Where> block.
C15_WhereBlockIffFilter ==
    \A i \in 1..Len(net) :
        /\ net[i].doc.where_xml # ""
              <=> (FirstExpression # "" \/ ViewHasFilter \/ request.options.calendar)
        /\ net[i].doc.where_xml # "<Where></Where>"

\* no filter at all: no block; no filter but a calendar: a block
C15_Witness ==
    /\ Len(net) = 2
    /\ ReqWhere = Multiple(<<"", WhereExpr(1)>>)
    /\ request.options.view = Some("Plain")
    /\ ~request.options.calendar
    /\ net[2].doc.where_xml = ""
    /\ net[2].doc.orderby_xml # ""

\* what the site's views hold, written out
ViewFields ==
    IF request.options.view = Some("Tasks") THEN {"Title", "Author"}
    ELSE IF request.options.view = Some("Plain") THEN {"Title"}
    ELSE {}
ViewSortRefs ==
    IF request.options.view = Some("Tasks")
    THEN "<FieldRef Name=\"Modified\" Ascending=\"false\" />" ELSE ""
UserSortRefs ==
    IF request.options.orderby = Some(<<"Title DESC", "ID">>)
    THEN "<FieldRef Name=\"Title\" Ascending=\"false\" /><FieldRef Name=\"ID\" Ascending=\"true\" />"
    ELSE ""
ViewFilter == "<Eq>Open</Eq>"

\* a user expression in the native dialect
Native(expr) == IF request.options.where_caml THEN expr ELSE "<Caml>" \o expr \o "</Caml>"

\* the filter of the round for user expression expr
ExpectedFilter(expr) ==
    IF ViewHasFilter
    THEN IF (ReqWhere.multi /\ ReqWhere.v # <<>>) \/ (~ReqWhere.multi /\ expr # "")
         THEN "<And>" \o Native(expr) \o ViewFilter \o "</And>"
         ELSE ViewFilter
    ELSE IF expr # "" THEN Native(expr) ELSE ""

FieldRefsOf(doc) ==
    {f \in {"Title", "ID", "Author"} :
        \E order \in iteration_orders({"Title", "ID", "Author"}),
           n \in 0..3, k \in 1..3 :
            /\ k <= n
            /\ order[k] = f
            /\ doc.fields_xml
                 = JoinStr([i \in 1..n |-> "<FieldRef Name=\"" \o order[i] \o "\" />"], "")}

ViewResolved == request.options.view \in {Some("Tasks"), Some("Plain"), Some("Bare")}

\* C17: for a request that names a view, the first round is compiled with
\* the union of the explicit and the view's fields, with the user's sort
\* followed by the view's sort (or whichever exists), and with the AND of the
\* user's filter and the view's filter (or whichever exists); of a filter
\* sequence every expression is ANDed with the view's filter.
C17_ViewMergedIntoRequest ==
    (ViewResolved /\ ~request.options.calendar) =>
        \A i \in 1..Len(net) :
            /\ FieldRefsOf(net[i].doc) = Range(request.options.fields) \cup ViewFields
            /\ net[i].doc.orderby_xml
                 = (IF UserSortRefs \o ViewSortRefs = "" THEN ""
                    ELSE "<OrderBy>" \o UserSortRefs \o ViewSortRefs \o "</OrderBy>")
            /\ net[i].doc.where_xml
                 = (IF ExpectedFilter(FirstExpression) = "" THEN ""
                    ELSE "<Where>" \o ExpectedFilter(FirstExpression) \o "</Where>")
            /\ (ReqWhere.multi /\ ViewHasFilter /\ Len(ReqWhere.v) > 1) =>
                  frame.options.next_where
                    = [k \in 1..(Len(ReqWhere.v) - 1) |-> ExpectedFilter(ReqWhere.v[k + 1])]

C17_Witness ==
    /\ Len(net) = 1
    /\ request.options.view = Some("Tasks")
    /\ request.options.fields = <<"Title", "ID">>
    /\ request.options.orderby = Some(<<"Title DESC", "ID">>)
    /\ ReqWhere = Multiple(WhereSeq(2)) /\ ~request.options.where_caml
    /\ net[1].doc.where_xml = "<Where><And><Caml>F1 = 1</Caml><Eq>Open</Eq></And></Where>"
    /\ frame.options.next_where = <<"<And><Caml>F2 = 1</Caml><Eq>Open</Eq></And>">>
    /\ FieldRefsOf(net[1].doc) = {"Title", "ID", "Author"}

----------------------------------------------------------------------------
(* The process-wide metadata caches: get_content_types                     *)
(* (getContentTypes.rs), get_lists (lists.rs) and get_content_type_info    *)
(* (getContentTypeInfo.rs).  A lookup checks its cache under the lock,     *)
(* drops the lock, awaits the SOAP request, and stores the result under    *)
(* the lock again; concurrent tasks interleave at the await.               *)

SiteUrl == "https://sp/site"
ListIds == {"A"}
ContentTypeIds == {"0x01"}
ContentTypeNames == {"Task", "Memo"}

\* content_type.starts_with("0x")
starts_with_0x(content_type) == content_type \in ContentTypeIds

OkValue(v) == [ok |-> TRUE, value |-> v, err |-> ""]
ErrValue(e) == [ok |-> FALSE, value |-> <<>>, err |-> e]

FirstIndex(S) == IF S = {} THEN 0 ELSE CHOOSE i \in S : \A j \in S : i <= j

\* what the site answers at revision r: the <ContentType> elements of a
\* GetListContentTypes response, the <List> elements of a GetListCollection
\* response, the body of a GetListContentType response
GetListContentTypes(list_id, r) ==
    << [ID |-> Some("0x01"), Name |-> Some("Task"),
        Description |-> Some(list_id \o " tasks, revision " \o ToString(r))],
       [ID |-> None, Name |-> Some("Memo"), Description |-> None],
       [ID |-> Some("0x0101"), Name |-> None, Description |-> None] >>
GetListCollection(r) ==
    << ("Title" :> "Documents" @@ "DefaultViewUrl" :> ("/Documents/v" \o ToString(r))),
       ("ID" :> "{B}") >>
GetListContentType(list_id, content_type, r) ==
    "<Fields revision=" \o ToString(r) \o "/>"

unwrap_or_default(o) == IF IsSome(o) THEN Unwrap(o) ELSE ""

\* parse_content_types_xml: an element without an ID is dropped, a missing
\* Name or Description is the empty string
ContentType(e) ==
    [id |-> Unwrap(e.ID), name |-> unwrap_or_default(e.Name),
     description |-> unwrap_or_default(e.Description)]
RECURSIVE parse_content_types_xml(_)
parse_content_types_xml(elements) ==
    IF elements = <<>> THEN <<>>
    ELSE (IF IsSome(Head(elements).ID) THEN <<ContentType(Head(elements))>> ELSE <<>>)
         \o parse_content_types_xml(Tail(elements))

\* lists.rs: every attribute is kept, Url copies DefaultViewUrl, Name copies Title
ListCollectionItem(attrs) ==
    LET withUrl == IF "DefaultViewUrl" \in DOMAIN attrs
                   THEN ("Url" :> attrs["DefaultViewUrl"]) @@ attrs ELSE attrs
    IN IF "Title" \in DOMAIN withUrl
       THEN ("Name" :> withUrl["Title"]) @@ withUrl ELSE withUrl
parse_list_collection(elements) ==
    [i \in 1..Len(elements) |-> ListCollectionItem(elements[i])]

\* parse_fields_from_xml: the placeholder returns no field for any document
parse_fields_from_xml(data) == <<>>

\* the caches and the running task, as the values one step works on
Now(c) ==
    [ types |-> SP_CACHE_CONTENTTYPES, lists |-> SP_CACHE_SAVEDLISTS,
      info |-> GLOBAL_SP_CACHE_CONTENTTYPE, caller |-> callers[c], served |-> served ]

Task(op, list_id, content_type, cache, began) ==
    [pc |-> "idle", op |-> op, list_id |-> list_id, url |-> SiteUrl,
     content_type |-> content_type, cache |-> cache, began |-> began, resolving |-> ""]

\* one returned lookup: found = the cache check found an entry,
\* remote = the invocation sent a SOAP request
Lookup(c, me, found, remote, result) ==
    [ op |-> me.op, list_id |-> me.list_id, url |-> me.url,
      content_type |-> me.content_type, cache |-> me.cache, began |-> me.began,
      found |-> found, remote |-> remote, result |-> result,
      last |-> me.resolving = "" \/ ~result.ok ]

Returned(m, c, found, remote, result) ==
    [m EXCEPT !.served = @ \o <<Lookup(c, m.caller, found, remote, result)>>]

Done(m) == [m EXCEPT !.caller = Idle]

find_content_types(cache, me) ==
    FirstIndex({ i \in DOMAIN cache :
                   cache[i].list_id = me.list_id /\ cache[i].url = me.url })
find_lists(cache, me) ==
    FirstIndex({ i \in DOMAIN cache : cache[i].url = me.url })
find_content_type_info(cache, me) ==
    FirstIndex({ i \in DOMAIN cache :
                   /\ cache[i].list = me.list_id /\ cache[i].url = me.url
                   /\ cache[i].content_type = me.content_type })

\* getContentTypeInfo.rs 28-36: back from get_content_types with the types;
\* the lookup by ID is entered and has its cache check still to make
resolve_name(m, c, types) ==
    LET me == m.caller
        outer == [me EXCEPT !.op = "get_content_type_info",
                            !.content_type = me.resolving, !.resolving = ""]
        ct == FirstIndex({ i \in DOMAIN types.value : types.value[i].name = me.resolving })
    IN IF ~types.ok THEN Done(m)
       ELSE IF ct = 0
       THEN Done(Returned([m EXCEPT !.caller = outer], c, FALSE, FALSE,
                          ErrValue("ContentTypeNotFound")))
       ELSE [m EXCEPT !.caller = [outer EXCEPT !.content_type = types.value[ct].id,
                                               !.began = Len(m.served),
                                               !.pc = "content_type_info_check"]]

\* get_content_types returns to the task, or to get_content_type_info
content_types_return(m, c, result) ==
    IF m.caller.resolving = "" THEN Done(m) ELSE resolve_name(m, c, result)

\* getContentTypes.rs 88-116: the cache check under the lock, then the
\* request is sent
get_content_types(m, c) ==
    LET me == m.caller
        hit == IF me.cache THEN find_content_types(m.types, me) ELSE 0
        found == OkValue(m.types[hit].content_types)
    IN IF hit # 0
       THEN content_types_return(Returned(m, c, TRUE, FALSE, found), c, found)
       ELSE [m EXCEPT !.caller.pc = "content_types_await"]

\* getContentTypes.rs 118-141: the answer; a parsed result is pushed when
\* the cache is enabled, whatever the cache holds by now
content_types_response(m, c, response) ==
    LET me == m.caller
        parsed == OkValue(parse_content_types_xml(response.elements))
        entry == [list_id |-> me.list_id, url |-> me.url, content_types |-> parsed.value]
        stored == IF me.cache THEN [m EXCEPT !.types = Append(@, entry)] ELSE m
    IN IF ~response.ok
       THEN content_types_return(Returned(m, c, FALSE, TRUE, ErrValue("SoapError")),
                                 c, ErrValue("SoapError"))
       ELSE content_types_return(Returned(stored, c, FALSE, TRUE, parsed), c, parsed)

\* getContentTypeInfo.rs 14-53: the cache check under the lock; then, the
\* lock released, get_content_types is entered for a name (its cache check
\* is under another lock), or the request is sent for an ID
get_content_type_info(m, c) ==
    LET me == m.caller
        hit == IF me.cache THEN find_content_type_info(m.info, me) ELSE 0
    IN IF hit # 0
       THEN Done(Returned(m, c, TRUE, FALSE, OkValue(m.info[hit].info)))
       ELSE IF ~starts_with_0x(me.content_type)
       THEN [m EXCEPT !.caller = [me EXCEPT !.op = "get_content_types",
                                            !.content_type = "",
                                            !.resolving = me.content_type,
                                            !.began = Len(m.served),
                                            !.pc = "content_types_check"]]
       ELSE [m EXCEPT !.caller.pc = "content_type_info_await"]

\* getContentTypeInfo.rs 53-69: the answer; the result is pushed whatever
\* options.cache says and whatever the cache holds by now
content_type_info_response(m, c, response) ==
    LET me == m.caller
        fields == parse_fields_from_xml(response.data)
        entry == [list |-> me.list_id, url |-> me.url,
                  content_type |-> me.content_type, info |-> fields]
    IN IF ~response.ok
       THEN Done(Returned(m, c, FALSE, TRUE, ErrValue("RequestError")))
       ELSE Done(Returned([m EXCEPT !.info = Append(@, entry)], c, FALSE, TRUE,
                          OkValue(fields)))

\* get_url::discover_url, which src/ does not hold: the URL of the site
discover_url(ok) == IF ok THEN OkValue(SiteUrl) ELSE ErrValue("UrlError")

\* lists.rs 109-112: without options.url the site's URL is discovered first
lists_discover(m, c) == [m EXCEPT !.caller.url = "", !.caller.pc = "lists_discover"]

\* lists.rs 114-131: the cache check, then the request is sent
get_lists(m, c) ==
    LET me == m.caller
        hit == IF me.cache THEN find_lists(m.lists, me) ELSE 0
    IN IF hit # 0
       THEN Done(Returned(m, c, TRUE, FALSE, OkValue(m.lists[hit].data)))
       ELSE [m EXCEPT !.caller.pc = "lists_await"]

\* lists.rs 131-174: the answer; with the cache enabled the result is pushed
\* unless the cache holds an entry for the site by now
lists_response(m, c, response) ==
    LET me == m.caller
        results == parse_list_collection(response.elements)
        entry == [url |-> me.url, data |-> results]
        stored == IF me.cache /\ find_lists(m.lists, me) = 0
                  THEN [m EXCEPT !.lists = Append(@, entry)] ELSE m
    IN IF ~response.ok
       THEN Done(Returned(m, c, FALSE, TRUE, ErrValue("RequestError")))
       ELSE Done(Returned(stored, c, FALSE, TRUE, OkValue(results)))

\* the step's effect on the caches, on task c and on the record of lookups
Apply(c, m) ==
    /\ SP_CACHE_CONTENTTYPES' = m.types
    /\ SP_CACHE_SAVEDLISTS' = m.lists
    /\ GLOBAL_SP_CACHE_CONTENTTYPE' = m.info
    /\ callers' = [callers EXCEPT ![c] = m.caller]
    /\ served' = m.served
    /\ UNCHANGED site
    /\ UNCHANGED query

Entering(c, op, list_id, content_type, cache) ==
    [Now(c) EXCEPT !.caller = Task(op, list_id, content_type, cache, Len(served))]

\* what the lookups so far have cost: one for every request sent and one for
\* every call returned (a lookup by name returns with its lookup by ID, or
\* with the error of its get_content_types)
Spent == Cardinality({i \in DOMAIN served : served[i].last \/ served[i].remote})

\* the types of a lookup by name are in the cache: no request will be sent
\* for them
TypesCached(me) == me.cache /\ find_content_types(SP_CACHE_CONTENTTYPES, me) # 0

\* the most a task in progress can still cost
Remaining(me) ==
    IF me.pc = "idle" THEN 0
    ELSE IF me.resolving # "" /\ ~(me.pc = "content_types_check" /\ TypesCached(me)) THEN 2
    ELSE 1

RECURSIVE InFlight(_)
InFlight(tasks) ==
    IF tasks = {} THEN 0
    ELSE LET d == CHOOSE d \in tasks : TRUE
         IN Remaining(callers[d]) + InFlight(tasks \ {d})

\* tasks are interchangeable: the idle task of the lowest number begins
CanBegin(c, cost) ==
    /\ callers[c].pc = "idle"
    /\ \A d \in Callers : d < c => callers[d].pc # "idle"
    /\ Spent + InFlight(Callers) + cost <= MaxLookups

CacheInit ==
    /\ pc = "metadata"
    /\ frame = [self |-> SharePointList("A", BaseUrl), options |-> DefaultOptions]
    /\ request = frame
    /\ locals = NoLocals
    /\ stack = <<>>
    /\ net = <<>>
    /\ sink = <<>>
    /\ outcome = Pending
    /\ lookups = <<>>
    /\ response_text = <<>>
    /\ decoded = NotDecoded
    /\ ColdStart

CallGetContentTypes(c) ==
    /\ CanBegin(c, 1)
    /\ \E list_id \in ListIds, cache \in BOOLEAN :
          Apply(c, get_content_types(Entering(c, "get_content_types", list_id, "", cache), c))

GetContentTypesResponse(c) ==
    /\ callers[c].pc = "content_types_await"
    /\ \E ok \in BOOLEAN :
          Apply(c, content_types_response(Now(c), c,
                     [ok |-> ok, elements |-> GetListContentTypes(callers[c].list_id, site)]))

CallGetLists(c) ==
    /\ CanBegin(c, 1)
    /\ \E cache \in BOOLEAN, url_given \in BOOLEAN :
          IF url_given
          THEN Apply(c, get_lists(Entering(c, "get_lists", "", "", cache), c))
          ELSE Apply(c, lists_discover(Entering(c, "get_lists", "", "", cache), c))

\* discover_url().await returns: the call fails, or goes on to its cache check
DiscoverUrl(c) ==
    /\ callers[c].pc = "lists_discover"
    /\ \E ok \in BOOLEAN :
          LET site_url == discover_url(ok)
          IN IF site_url.ok
             THEN Apply(c, get_lists([Now(c) EXCEPT !.caller.url = site_url.value], c))
             ELSE Apply(c, Done(Returned(Now(c), c, FALSE, FALSE, ErrValue(site_url.err))))

GetListsResponse(c) ==
    /\ callers[c].pc = "lists_await"
    /\ \E ok \in BOOLEAN :
          Apply(c, lists_response(Now(c), c, [ok |-> ok, elements |-> GetListCollection(site)]))

CallGetContentTypeInfo(c) ==
    /\ \E content_type \in ContentTypeIds \cup ContentTypeNames, cache \in BOOLEAN :
        /\ CanBegin(c, IF starts_with_0x(content_type)
                           \/ TypesCached(Task("", "A", "", cache, 0)) THEN 1 ELSE 2)
        /\ Apply(c, get_content_type_info(
                    Entering(c, "get_content_type_info", "A", content_type, cache), c))

\* a lookup by name, between the lock of the info cache and the lock of the
\* types cache: get_content_types makes its cache check
ContentTypesCheck(c) ==
    /\ callers[c].pc = "content_types_check"
    /\ Apply(c, get_content_types(Now(c), c))

\* a lookup by name, the types returned and their lock released: the lookup
\* by ID makes its cache check
ContentTypeInfoCheck(c) ==
    /\ callers[c].pc = "content_type_info_check"
    /\ Apply(c, get_content_type_info(Now(c), c))

GetContentTypeInfoResponse(c) ==
    /\ callers[c].pc = "content_type_info_await"
    /\ \E ok \in BOOLEAN :
          Apply(c, content_type_info_response(Now(c), c,
                     [ok |-> ok,
                      data |-> GetListContentType(callers[c].list_id,
                                                  callers[c].content_type, site)]))

\* somebody edits the site's metadata
SiteChanges ==
    /\ site < MaxRevision
    /\ site' = site + 1
    /\ UNCHANGED <<SP_CACHE_CONTENTTYPES, SP_CACHE_SAVEDLISTS, GLOBAL_SP_CACHE_CONTENTTYPE,
                   callers, served>>
    /\ UNCHANGED query

CacheNext ==
    \/ \E c \in Callers : CallGetContentTypes(c)
    \/ \E c \in Callers : GetContentTypesResponse(c)
    \/ \E c \in Callers : CallGetLists(c)
    \/ \E c \in Callers : GetListsResponse(c)
    \/ \E c \in Callers : CallGetContentTypeInfo(c)
    \/ \E c \in Callers : GetContentTypeInfoResponse(c)
    \/ \E c \in Callers : DiscoverUrl(c)
    \/ \E c \in Callers : ContentTypesCheck(c)
    \/ \E c \in Callers : ContentTypeInfoCheck(c)
    \/ SiteChanges

CacheSpec == CacheInit /\ [][CacheNext]_vars

----------------------------------------------------------------------------
(* Claims about the metadata caches.                                       *)

\* the key of an entry of each cache
ContentTypesKey(e) == <<e.list_id, e.url>>
SavedListsKey(e) == <<e.url>>
ContentTypeInfoKey(e) == <<e.list, e.url, e.content_type>>

OneEntryPerKey(cache, KeyOf(_)) ==
    \A i, j \in DOMAIN cache : KeyOf(cache[i]) = KeyOf(cache[j]) => i = j

\* every lookup so far, returned or in progress, was made with the cache enabled
AllCached ==
    /\ \A i \in DOMAIN served : served[i].cache
    /\ \A c \in Callers : callers[c].pc # "idle" => callers[c].cache

\* C18: while every caller resolves with caching enabled, however the
\* callers interleave, no cache holds two entries for one key, and a lookup
\* whose cache check found an entry sent no request.
C18_OneEntryPerKey ==
    AllCached =>
        /\ OneEntryPerKey(SP_CACHE_CONTENTTYPES, ContentTypesKey)
        /\ OneEntryPerKey(SP_CACHE_SAVEDLISTS, SavedListsKey)
        /\ OneEntryPerKey(GLOBAL_SP_CACHE_CONTENTTYPE, ContentTypeInfoKey)
        /\ \A i \in DOMAIN served : served[i].found => ~served[i].remote

SameKey(a, b) ==
    /\ a.op = b.op /\ a.list_id = b.list_id /\ a.url = b.url
    /\ a.content_type = b.content_type

\* what a lookup returns when the site is at revision r
ValueAt(l, r) ==
    IF l.op = "get_content_types"
    THEN parse_content_types_xml(GetListContentTypes(l.list_id, r))
    ELSE IF l.op = "get_lists" THEN parse_list_collection(GetListCollection(r))
    ELSE parse_fields_from_xml(GetListContentType(l.list_id, l.content_type, r))

\* lookup a returned the metadata of an earlier revision than lookup b did
Older(a, b) ==
    \E r1, r2 \in 1..MaxRevision :
        /\ r1 < r2
        /\ a.result.value = ValueAt(a, r1) /\ b.result.value = ValueAt(b, r2)
        /\ a.result.value # b.result.value

Bypass(l) == ~l.cache /\ l.result.ok

\* C19: a lookup made with the cache bypassed sends the request, and once it
\* has returned v, a cached lookup of the same key that begins afterwards
\* (with no other bypass lookup of the key in between) does not return a
\* value older than v.
C19_BypassInvalidates ==
    /\ \A i \in DOMAIN served : Bypass(served[i]) => served[i].remote
    /\ \A i, j \in DOMAIN served :
          ( /\ Bypass(served[i])
            /\ served[j].cache /\ served[j].result.ok
            /\ SameKey(served[i], served[j])
            /\ i <= served[j].began
            /\ \A k \in (i + 1)..(j - 1) :
                  ~(Bypass(served[k]) /\ SameKey(served[k], served[i])) )
          => ~Older(served[j], served[i])

----------------------------------------------------------------------------
(* Claims about the rounds of the base retrieval.                          *)

\* the base rounds sent with a page token
ContinuationRounds == Cardinality({k \in 1..Len(BaseRounds) : BaseRounds[k].doc.paging # ""})

\* the running invocation works on the request's own list
OnBaseList == frame.self = request.self

\* the budget taken so far: one page per continuation round sent or entered
PagesTaken ==
    ContinuationRounds
    + (IF pc \in {"start", "view"} /\ OnBaseList /\ IsSome(frame.options.next_page_token)
       THEN 1 ELSE 0)

\* whatever tokens the service returns, the base retrieval of a request
\* issues at most (page budget - 1) + n rounds, and exactly n when the budget
\* is 0 or 1; the budget goes down by one per continuation round, never
\* below 1 and never up between filter segments, and the pending-filter
\* queue holds the expressions not yet started
RoundsBounded(n) ==
    request.options.paging =>
        /\ Len(BaseRounds)
              <= (IF request.options.page >= 1 THEN request.options.page - 1 ELSE 0) + n
        /\ (Finished /\ request.options.page <= 1) => Len(BaseRounds) = n
        /\ OnBaseList =>
              /\ frame.options.page = request.options.page - PagesTaken
              /\ PagesTaken > 0 => frame.options.page >= 1
        /\ (OnBaseList /\ pc = "await" /\ ReqWhere.multi) =>
              Len(frame.options.next_where) = n - SegmentOf(Len(BaseRounds))

\* the filter expressions of the request: those of its sequence, or its one
\* expression
Expressions == IF ReqWhere.multi THEN FilterCount ELSE 1

\* C26: whatever tokens the service returns, the base retrieval of a request
\* with N filter expressions issues at most (page budget - 1) + N rounds, and
\* exactly N when the budget is 0 or 1.
C26_AnySequence == RoundsBounded(Expressions)

\* C26, amended: an empty sequence is run as one unfiltered segment, so the
\* bound is (page budget - 1) + max(N, 1), and the rounds are exactly
\* max(N, 1) when the budget is 0 or 1.
C26_RoundsBounded == RoundsBounded(Segments)

\* an empty sequence and a budget of 2, a token in every response: 2 rounds
C26_EmptySequence ==
    /\ Finished /\ request.options.paging /\ request.options.page = 2
    /\ ReqWhere.multi /\ FilterCount = 0
    /\ Len(BaseRounds) = 2
    /\ IsSome(BaseRounds[1].token) /\ BaseRounds[2].doc.paging # ""

\* two segments and a budget of 3, a token in every response: 2 + 2 rounds
C26_Witness ==
    /\ Finished /\ request.options.paging /\ request.options.page = 3
    /\ ReqWhere.multi /\ FilterCount = 2
    /\ Len(BaseRounds) = 4
    /\ \A k \in 1..4 : IsSome(BaseRounds[k].token)
    /\ BaseRounds[2].doc.paging # "" /\ BaseRounds[3].doc.paging # ""
    /\ BaseRounds[4].doc.paging = ""

\* round i returned a token that no later round was sent with
Unconsumed(i) ==
    /\ IsSome(net[i].token)
    /\ \A j \in (i + 1)..Len(net) : net[j].doc.paging # clean_string(Unwrap(net[i].token))

\* C27: when a call ends successfully and some round of it returned a token
\* that no later round consumed, the Result carries a token.
C27_UnfetchedDataSignalled ==
    (Finished /\ \E i \in 1..Len(net) : Unconsumed(i)) => IsSome(outcome.next_page_token)

----------------------------------------------------------------------------
(* The decoder's claim about the page token.                               *)

\* the data-wrapper elements of the response
DataElements ==
    SelectSeq(response_text,
              LAMBDA e : e.type \in {"Start", "Empty"} /\ e.name \in {"rs:data", "data"})

\* the non-empty continuation-token values the data wrappers carry
TokenValues ==
    { decode_and_unescape_value(DataElements[i].attributes[k].value) :
        <<i, k>> \in { t \in (1..Len(DataElements)) \X (1..2) :
                         /\ t[2] <= Len(DataElements[t[1]].attributes)
                         /\ DataElements[t[1]].attributes[t[2]].key
                              = <<"ListItemCollectionPositionNext">> } } \ {""}

\* C30: a decoded response surfaces a next-page token if and only if its
\* data wrapper carries a continuation-token attribute with a non-empty
\* value, and the token is that value; an absent or empty attribute gives
\* no token.
C30_TokenIffAttribute ==
    pc = "decoded" =>
        /\ IsSome(decoded.response_next_page_token) <=> TokenValues # {}
        /\ IsSome(decoded.response_next_page_token) =>
              Unwrap(decoded.response_next_page_token) \in TokenValues

C30_Witness ==
    /\ pc = "decoded"
    /\ Len(decoded.parsed_items) >= 1
    /\ decoded.response_next_page_token = Some("Paged=TRUE&p_ID=1")
    /\ DataElements[1].attributes[2].value = "Paged=TRUE&amp;p_ID=1"

----------------------------------------------------------------------------
(* get() on requests that name a view, give filters in either dialect and  *)
(* may carry a page token of the caller's.                                 *)

\* a token the caller kept from an earlier call
CallerToken == TokenOf(MaxRounds + 2)

ViewRequests ==
    { [ self |-> SharePointList("A", BaseUrl),
        options |-> [DefaultOptions EXCEPT
                        !.fields = <<"ID">>, !.view = v, !.orderby = o,
                        !.where_clause = w, !.where_caml = caml,
                        !.paging = pg.paging, !.page = pg.page,
                        !.next_page_token = t, !.join = j] ] :
      v \in {None, Some("Tasks"), Some("Plain")},
      o \in OrderBys,
      w \in {Single(""), Single(WhereExpr(1)), Multiple(WhereSeq(2))},
      caml \in BOOLEAN,
      pg \in {[paging |-> FALSE, page |-> 5000], [paging |-> TRUE, page |-> 2]},
      t \in {None, Some(CallerToken)},
      j \in {None, Some(JoinOptions("B", Some(OnAB), FALSE, ChildRequest))} }

ViewInit ==
    /\ pc = "start"
    /\ frame \in ViewRequests
    /\ request = frame
    /\ locals = NoLocals
    /\ stack = <<>>
    /\ net = <<>>
    /\ sink = <<>>
    /\ outcome = Pending
    /\ lookups = <<>>
    /\ response_text = <<>>
    /\ decoded = NotDecoded
    /\ ColdStart

ViewSpec == ViewInit /\ [][Next]_vars

\* the filter blocks a round of the request may carry when the view's filter
\* is part of it
ViewFilterBlocks ==
    {"<Where>" \o ExpectedFilter(e) \o "</Where>" : e \in Range(ReqWhere.v) \cup {""}}

\* C21: for a request that names a view, every round of the base retrieval,
\* paging rounds and later filter rounds included, is compiled with the
\* field set and the sort of the first round and, where the view has a
\* filter, with a filter block that holds the view's filter; the view is
\* resolved at most once.
C21_ViewInEveryRound ==
    ViewResolved =>
        /\ \A i \in 1..Len(BaseRounds) :
              /\ FieldRefsOf(BaseRounds[i].doc) = FieldRefsOf(BaseRounds[1].doc)
              /\ BaseRounds[i].doc.orderby_xml = BaseRounds[1].doc.orderby_xml
              /\ ViewHasFilter => BaseRounds[i].doc.where_xml \in ViewFilterBlocks
        /\ Len(lookups) <= 1

\* the filters in which every expression of the user's went through the
\* translator once if it is in the SQL-like dialect and not at all if it is
\* native, alone or ANDed with the view's native filter
TranslatedOnce ==
    {""} \cup (IF ViewHasFilter THEN {ViewFilter} ELSE {})
         \cup {Native(e) : e \in Range(ReqWhere.v) \ {""}}
         \cup (IF ViewHasFilter
                THEN {"<And>" \o Native(e) \o ViewFilter \o "</And>" : e \in Range(ReqWhere.v)}
                ELSE {})

\* C22: in every round a filter expression of the SQL-like dialect has been
\* translated exactly once and a native one is inserted unchanged; the text
\* of a filter sequence ANDed with a view's filter is not translated again in
\* rounds 2..N.
C22_TranslatedExactlyOnce ==
    \A i \in 1..Len(BaseRounds) :
        BaseRounds[i].doc.where_xml
            \in {where_xml(inner) : inner \in TranslatedOnce}

\* the running invocation ends a round and recurses on the same list
Recurses ==
    /\ pc = "await" /\ pc' = "start"
    /\ frame'.self = frame.self /\ stack' = stack

\* ... into the next filter segment
NextSegment == Recurses /\ Len(frame'.options.next_where) < Len(frame.options.next_where)

\* ... into the next page of the same segment
NextPageOfSegment == Recurses /\ ~NextSegment /\ IsSome(frame'.options.next_page_token)

\* an invocation sends its round
Sends == pc \in {"start", "view"} /\ pc' = "await" /\ Len(net') = Len(net) + 1

\* C25: the invocation entered for the next filter segment holds no page
\* token, whatever token the segment before returned or the caller supplied,
\* and an invocation without a token sends an empty paging attribute; a
\* token is carried only into an invocation with the same filter and the
\* same pending filters as the round that returned it.
C25_SegmentStartsWithoutToken ==
    [][ /\ NextSegment => frame'.options.next_page_token = None
        /\ (Sends /\ frame.options.next_page_token = None) => net'[Len(net')].doc.paging = ""
        /\ NextPageOfSegment =>
              /\ frame'.options.where_clause = frame.options.where_clause
              /\ frame'.options.next_where = frame.options.next_where
              /\ frame'.options.next_page_token
                    = Some(clean_string(Unwrap(net'[Len(net')].token))) ]_vars

\* the caller's token went out with round 1, round 2 was a continuation page
\* whose response carried a token again, round 3 opened the second segment
C25_Witness ==
    /\ pc = "await"
    /\ request.options.next_page_token = Some(CallerToken)
    /\ ReqWhere = Multiple(WhereSeq(2)) /\ ~request.options.where_caml
    /\ request.options.view = None
    /\ Len(BaseRounds) = 3 /\ Len(net) = 3
    /\ BaseRounds[1].doc.paging = CallerToken
    /\ BaseRounds[2].doc.paging # ""
    /\ IsSome(BaseRounds[2].token)
    /\ BaseRounds[3].doc.paging = ""
    /\ BaseRounds[3].doc.where_xml = "<Where><Caml>F2 = 1</Caml></Where>"

----------------------------------------------------------------------------
(* get() on list P joined to list Q: ON-clauses of one and of two field    *)
(* pairs, a nested join to list R, and the lookup join with its IN filter. *)

LookupJoin(list, on, on_lookup, options) ==
    [JoinOptions(list, on, FALSE, options) EXCEPT !.on_lookup = on_lookup]

NestedJoin(list, on, nested) ==
    [JoinOptions(list, on, FALSE, ChildRequest) EXCEPT !.join = Some(nested)]

\* the child request's own filter
ChildWheres == {Single(""), Single(WhereExpr(1)), Multiple(WhereSeq(2))}

ChildFiltered(w) == [ChildRequest EXCEPT !.where_clause = w]

JoinRequests ==
    { [ self |-> SharePointList("P", BaseUrl),
        options |-> [DefaultOptions EXCEPT !.join = j.join, !.outerjoin = j.outerjoin,
                                          !.view = v] ] :
      v \in {None, Some("Bare")},
      j \in { [join |-> Some(JoinOptions("Q", Some(OnKey), FALSE, ChildRequest)), outerjoin |-> None],
              [join |-> None, outerjoin |-> Some(JoinOptions("Q", Some(OnKey), FALSE, ChildRequest))],
              [join |-> Some(JoinOptions("Q", Some(OnTwoPairs), FALSE, ChildRequest)), outerjoin |-> None],
              [join |-> Some(NestedJoin("Q", Some(OnKey),
                                        JoinOptions("R", Some(OnNested), FALSE, ChildRequest))),
               outerjoin |-> None] }
           \cup { [join |-> Some(LookupJoin("Q", None, Some("pid"), ChildFiltered(w))),
                   outerjoin |-> None] : w \in ChildWheres }
           \cup { [join |-> Some(LookupJoin("Q", Some(OnParentId), None, ChildFiltered(w))),
                   outerjoin |-> None] : w \in ChildWheres } }

JoinInit ==
    /\ pc = "start"
    /\ frame \in JoinRequests
    /\ request = frame
    /\ locals = NoLocals
    /\ stack = <<>>
    /\ net = <<>>
    /\ sink = <<>>
    /\ outcome = Pending
    /\ lookups = <<>>
    /\ response_text = <<>>
    /\ decoded = NotDecoded
    /\ ColdStart

JoinSpec == JoinInit /\ [][Next]_vars

\* the join of the request, its ON pairs, the alias of either side
ReqJoinOptions == Unwrap(effective_join_options(request.options)).opts
ReqOnPairs ==
    parse_on_clause(Unwrap(on_clause(ReqJoinOptions, request.self.list_id))).pairs
ParentAlias == request.self.list_id
ChildAlias == ReqJoinOptions.list

\* the fields of one side of a returned record, without the alias prefix
SideOf(item, alias) ==
    [ k \in {Tail(k2) : k2 \in {k3 \in DOMAIN item : Len(k3) = 2 /\ Head(k3) = alias}} |->
        item[<<alias>> \o k] ]

HasSide(item, alias) == \E k \in DOMAIN item : Len(k) = 2 /\ Head(k) = alias

\* a record merged from a parent row and a child row
IsJoined(item) == HasSide(item, ParentAlias) /\ HasSide(item, ChildAlias)

\* the key component of a row of the list called alias for ON pair p
KeyComponent(row, p, alias) == id_part(Get(row, Key(Unwrap(refers_to(p, alias)))))

\* C24: no returned record is merged from a parent row and a child row
\* whose key component for some ON pair is empty or missing, in inner and
\* in outer joins.
C24_EmptyKeyMatchesNothing ==
    Finished =>
        \A i \in 1..Len(outcome.items) :
            IsJoined(outcome.items[i]) =>
                \A n \in 1..Len(ReqOnPairs) :
                    /\ KeyComponent(SideOf(outcome.items[i], ParentAlias),
                                    ReqOnPairs[n], ParentAlias) # ""
                    /\ KeyComponent(SideOf(outcome.items[i], ChildAlias),
                                    ReqOnPairs[n], ChildAlias) # ""

\* the values of parent row p and child row c are equal pair by pair
EqualPairByPair(p, c) ==
    \A n \in 1..Len(ReqOnPairs) :
        KeyComponent(p, ReqOnPairs[n], ParentAlias) = KeyComponent(c, ReqOnPairs[n], ChildAlias)

NoNestedJoin == ReqJoinOptions.join = None /\ ReqJoinOptions.outerjoin = None

\* C29: a parent row and a child row are joined if and only if their ON
\* values are equal pair by pair; rows whose value lists differ never share
\* a composite key.
C29_JoinedIffEqualPairByPair ==
    (Finished /\ NoNestedJoin) =>
        /\ \A i \in 1..Len(outcome.items) :
              IsJoined(outcome.items[i]) =>
                  EqualPairByPair(SideOf(outcome.items[i], ParentAlias),
                                  SideOf(outcome.items[i], ChildAlias))
        /\ \A i \in 1..Len(ParentRows), j \in 1..Len(ChildRows) :
              EqualPairByPair(ParentRows[i], ChildRows[j]) =>
                  \E n \in 1..Len(outcome.items) :
                      /\ SideOf(outcome.items[n], ParentAlias) = ParentRows[i]
                      /\ SideOf(outcome.items[n], ChildAlias) = ChildRows[j]

\* the rows the list called list_id returned, over all its rounds
RowsFetched(list_id) ==
    Range(RoundRows(SelectSeq(net, LAMBDA e : e.doc.listName = list_id)))

IsOuter == IsSome(request.options.outerjoin) \/ ReqJoinOptions.outer

\* C23: every record of a join carries all fields of a parent row under the
\* parent's alias and, when it comes from a match, all fields of a child row
\* under the child's alias; with a nested join (P to Q, Q to R) every record
\* carries the fields of a row of P, of a row of Q and of a row of R.
C23_RecordsCarryBothSides ==
    Finished =>
        \A i \in 1..Len(outcome.items) :
            /\ SideOf(outcome.items[i], ParentAlias) \in RowsFetched(ParentAlias)
            /\ (~IsOuter \/ HasSide(outcome.items[i], ChildAlias)) =>
                  SideOf(outcome.items[i], ChildAlias) \in RowsFetched(ChildAlias)
            /\ IsSome(ReqJoinOptions.join) =>
                  SideOf(outcome.items[i], Unwrap(ReqJoinOptions.join).list)
                      \in RowsFetched(Unwrap(ReqJoinOptions.join).list)

----------------------------------------------------------------------------
(* A service that answers a request to list Q with the rows of the list    *)
(* that satisfy the request's filter.                                      *)

QContents == <<q1, q2>>

Filter(text, rows) == [text |-> text, rows |-> rows]

\* the child's own expressions: q1 and q2 satisfy F1, q1 alone satisfies F2
UserFilters == {Filter(WhereExpr(1), {q1, q2}), Filter(WhereExpr(2), {q1})}

\* "<field> IN [ids]": the rows whose lookup value points to one of the ids
InFilters ==
    { Filter("(" \o in_clause("pid", order) \o ")",
             {q \in Range(QContents) :
                 ("~" \o id_part(Get(q, Key("pid")))) \in Range(order)}) :
      order \in UNION {iteration_orders(ids) : ids \in (SUBSET {"~1", "~2"}) \ {{}}} }

AndFilter(f, g) == Filter("(" \o f.text \o ") AND (" \o g.text \o ")", f.rows \cap g.rows)
OrFilter(f, g) == Filter("(" \o f.text \o ") OR (" \o g.text \o ")", f.rows \cup g.rows)

\* the child's own filter as the IN filter is combined with it
OwnFilters == UserFilters \cup {OrFilter(u, v) : u \in UserFilters, v \in UserFilters}

KnownFilters ==
    UserFilters \cup InFilters \cup {AndFilter(i, u) : i \in InFilters, u \in OwnFilters}

\* the filter with this text, in the dialect the service is sent
Understood(where_block) ==
    {f \in KnownFilters : where_block = where_xml(parse_where_to_caml(f.text))}

\* the rows of list Q for a filter block
Answer(where_block) ==
    IF where_block = "" THEN QContents
    ELSE LET f == CHOOSE f \in Understood(where_block) : TRUE
         IN SelectSeq(QContents, LAMBDA q : q \in f.rows)

ChildRounds == SelectSeq(net, LAMBDA e : e.doc.listName = ChildAlias)

Truthful ==
    \A i \in 1..Len(ChildRounds) :
        /\ ChildRounds[i].doc.where_xml # "" => Understood(ChildRounds[i].doc.where_xml) # {}
        /\ ChildRounds[i].rows = Answer(ChildRounds[i].doc.where_xml)

\* the rows of the child retrieved with its own filter alone: one round per
\* expression of a filter sequence
ChildWhere == ReqJoinOptions.options.where_clause
UnfilteredChildRows ==
    Flatten([n \in 1..Len(ChildWhere.v) |->
                Answer(where_xml(where_inner_xml(Single(ChildWhere.v[n]),
                                                 ReqJoinOptions.options.where_caml)))])

\* how often record x is in the join of the parent rows with those rows
JoinCount(x) ==
    Cardinality({t \in (1..Len(ParentRows)) \X (1..Len(UnfilteredChildRows)) :
        /\ EqualPairByPair(ParentRows[t[1]], UnfilteredChildRows[t[2]])
        /\ x = merged_item(prefixed_item(ParentRows[t[1]], ParentAlias),
                           UnfilteredChildRows[t[2]], ChildAlias)})

ReturnCount(x) == Cardinality({i \in 1..Len(outcome.items) : outcome.items[i] = x})

JoinedRecords ==
    {merged_item(prefixed_item(ParentRows[t[1]], ParentAlias),
                 UnfilteredChildRows[t[2]], ChildAlias) :
        t \in (1..Len(ParentRows)) \X (1..Len(UnfilteredChildRows))}

\* the parent IDs fit in fewer than max_where_parts chunks of max_in_clause
FewChunks ==
    \A order \in iteration_orders(
            join_lookup_values_for_where(ParentRows, ReqOnPairs, ParentAlias, ReqJoinOptions)) :
        Len(chunks(order, max_in_clause)) < max_where_parts

\* C28: with a service that answers by the filter, a join on the parent's
\* ID returns the same records, each as often, whether the IN filter on the
\* parent IDs is injected into the child request or not, the child's own
\* filter being empty, one expression or a sequence; the filter is injected
\* when the IDs fit in fewer than 10 chunks of at most 500 values.
C28_InFilterKeepsJoinResult ==
    (Finished /\ ReqOnPairs = parse_on_clause(OnParentId).pairs /\ Truthful) =>
        /\ \A x \in Range(outcome.items) \cup JoinedRecords : ReturnCount(x) = JoinCount(x)
        /\ (IsSome(ReqJoinOptions.on_lookup) /\ ParentRows # <<>> /\ FewChunks) =>
              \A i \in 1..Len(ChildRounds) :
                  \E f \in Understood(ChildRounds[i].doc.where_xml), g \in InFilters :
                      f = g \/ \E u \in OwnFilters : f = AndFilter(g, u)

====
